---------------------------- MODULE Spec2Model ----------------------------
(***************************************************************************)
(* The document-export engine of src-tauri/src/commands/export.rs: the     *)
(* tolerant markup parser (tag scanner, block parser, inline parser), the  *)
(* document model, and the two renderers (flow document and page).         *)
(*                                                                         *)
(* A string is a sequence of characters; a character is a one-element      *)
(* token ("a", "<", ...).  Positions are 0-based as in the source:         *)
(* At(chars, pos) is chars[pos], Slice(chars, a, b) is chars[a..b].        *)
(* Characters outside ASCII are named by their code point.  "U+0130"       *)
(* (capital I with dot above) and "U+0307" (combining dot above) are kept  *)
(* because to_lowercase maps the first to "i" followed by the second: the  *)
(* lower-cased copy of a string can be longer in bytes than the string     *)
(* itself, and the byte offsets that strip_tags_simple takes from the copy *)
(* are applied to the original.  "U+00E9" (e with acute) is a two-byte     *)
(* character that a custom element name may hold.                          *)
(***************************************************************************)
EXTENDS Integers, Sequences, FiniteSets, TLC

\* ------------------------------------------------------------------------
\* Characters and strings
\* ------------------------------------------------------------------------

At(chars, pos) == chars[pos + 1]

Slice(chars, a, b) == SubSeq(chars, a + 1, b)

Min(a, b) == IF a < b THEN a ELSE b

Max(a, b) == IF a > b THEN a ELSE b

\* The least element of a non-empty set of integers: where a forward scan stops
Least(S) == CHOOSE x \in S : \A y \in S : x <= y

\* The characters with char::is_whitespace, among the characters of the model
Whitespace == {" ", "\n", "\t"}

\* char::is_whitespace
is_whitespace(c) == c \in Whitespace

UpperAscii == <<"A", "B", "C", "D", "E", "F", "G", "H", "I", "J", "K", "L", "M",
                "N", "O", "P", "Q", "R", "S", "T", "U", "V", "W", "X", "Y", "Z">>

LowerAscii == <<"a", "b", "c", "d", "e", "f", "g", "h", "i", "j", "k", "l", "m",
                "n", "o", "p", "q", "r", "s", "t", "u", "v", "w", "x", "y", "z">>

\* char::to_lowercase: one character may lower-case to several
char_to_lowercase(c) ==
    IF c = "U+0130" THEN <<"i", "U+0307">>
    ELSE IF \E i \in 1..26 : UpperAscii[i] = c
         THEN <<LowerAscii[CHOOSE i \in 1..26 : UpperAscii[i] = c]>>
         ELSE <<c>>

RECURSIVE to_lowercase(_)
\* str::to_lowercase: the lower-casings of the characters, concatenated (the
\* string is halved to keep the evaluation shallow)
to_lowercase(s) ==
    IF s = <<>> THEN <<>>
    ELSE IF Len(s) = 1 THEN char_to_lowercase(s[1])
    ELSE to_lowercase(SubSeq(s, 1, Len(s) \div 2))
             \o to_lowercase(SubSeq(s, Len(s) \div 2 + 1, Len(s)))

\* char::len_utf8: the bytes a character takes in a String
len_utf8(c) ==
    IF c \in {"U+00E9", "U+0130", "U+0307"} THEN 2
    ELSE IF c \in {"U+2014", "U+2013", "U+2026", "U+2018", "U+2019", "U+201C", "U+201D",
                   "U+2022"}
         THEN 3
         ELSE 1

\* str::len: the length of a String in bytes
byte_len(s) ==
    Len(s) + Cardinality({i \in 1..Len(s) : len_utf8(s[i]) = 2})
           + 2 * Cardinality({i \in 1..Len(s) : len_utf8(s[i]) = 3})

\* str::starts_with
starts_with(s, prefix) ==
    Len(prefix) <= Len(s) /\ SubSeq(s, 1, Len(prefix)) = prefix

\* The first position p >= pos with chars[p] in stop, or chars.len(): the result
\* of `while pos < chars.len() && !stop(chars[pos]) { pos += 1 }`
ScanUntil(stop, chars, pos) ==
    Least({p \in pos..Max(pos, Len(chars)) : p >= Len(chars) \/ At(chars, p) \in stop})

\* `while pos < chars.len() && chars[pos].is_whitespace() { pos += 1 }`
SkipWhitespace(chars, pos) ==
    Least({p \in pos..Max(pos, Len(chars)) : p >= Len(chars) \/ ~is_whitespace(At(chars, p))})

\* The length of s without its trailing whitespace
trim_end_len(s) ==
    CHOOSE b \in 0..Len(s) :
        /\ b = 0 \/ ~is_whitespace(s[b])
        /\ \A c \in (b + 1)..Len(s) : is_whitespace(s[c])

\* str::trim
trim(s) == Slice(s, SkipWhitespace(s, 0), trim_end_len(s))

\* ------------------------------------------------------------------------
\* Tag scanner
\* ------------------------------------------------------------------------

\* Where a tag name or an unquoted attribute value ends: whitespace, `>` or `/`
NameStop == Whitespace \cup {">", "/"}

\* Where an attribute name ends: whitespace, `=`, `>` or `/`
AttrNameStop == Whitespace \cup {"=", ">", "/"}

NoTag == [some |-> FALSE, name |-> <<>>, end |-> 0, attrs |-> <<>>]

RECURSIVE read_attributes(_, _, _)

\* The value of an attribute read: it starts at val_start and ends at val_end,
\* and a closing quote, when there is one, is skipped; then the loop goes on
read_attr_value(chars, attr_name, quoted, val_start, val_end, attrs) ==
    read_attributes(chars,
        IF quoted /\ val_end < Len(chars) THEN val_end + 1 ELSE val_end,
        Append(attrs, <<to_lowercase(attr_name), Slice(chars, val_start, val_end)>>))

\* After `=` and the whitespace behind it, at v: a quoted or an unquoted value
read_attr_after_eq(chars, attr_name, v, attrs) ==
    IF v < Len(chars) /\ At(chars, v) \in {"\"", "'"}
    THEN read_attr_value(chars, attr_name, TRUE, v + 1,
             ScanUntil({At(chars, v)}, chars, v + 1), attrs)
    ELSE read_attr_value(chars, attr_name, FALSE, v, ScanUntil(NameStop, chars, v), attrs)

\* After the attribute name and the whitespace behind it, at eq
read_attr_after_name(chars, attr_name, eq, attrs) ==
    IF eq < Len(chars) /\ At(chars, eq) = "="
    THEN read_attr_after_eq(chars, attr_name, SkipWhitespace(chars, eq + 1), attrs)
    ELSE read_attributes(chars, eq,
             IF attr_name # <<>> THEN Append(attrs, <<to_lowercase(attr_name), <<>>>>)
             ELSE attrs)

\* The attribute name that starts at pos and ends at name_end
read_attr_name(chars, pos, name_end, attrs) ==
    read_attr_after_name(chars, Slice(chars, pos, name_end),
                         SkipWhitespace(chars, name_end), attrs)

\* One pass of the attribute loop with the whitespace skipped, at pos
read_attribute(chars, pos, attrs) ==
    IF pos >= Len(chars) THEN [end |-> pos, attrs |-> attrs]
    ELSE IF At(chars, pos) = ">" THEN [end |-> pos + 1, attrs |-> attrs]
    ELSE IF At(chars, pos) = "/"
         THEN [end |-> IF pos + 1 < Len(chars) /\ At(chars, pos + 1) = ">"
                       THEN pos + 2 ELSE pos + 1,
               attrs |-> attrs]
    ELSE read_attr_name(chars, pos, ScanUntil(AttrNameStop, chars, pos), attrs)

\* The attribute loop of read_opening_tag: from pos0, the position after the tag
\* and the (name, value) pairs read
read_attributes(chars, pos0, attrs) ==
    read_attribute(chars, SkipWhitespace(chars, pos0), attrs)

\* Some(TagInfo) of read_opening_tag: the name lower-cased, the attributes read
tag_info_of(name, r) ==
    [some |-> TRUE, name |-> to_lowercase(name), end |-> r.end, attrs |-> r.attrs]

\* The tag name that starts at name_start and ends at name_end
read_tag_name(chars, name_start, name_end) ==
    IF name_start = name_end THEN NoTag
    ELSE tag_info_of(Slice(chars, name_start, name_end),
                     read_attributes(chars, name_end, <<>>))

\* read_opening_tag after `<` and the whitespace behind it, at pos
read_tag_at(chars, pos) ==
    IF pos < Len(chars) /\ At(chars, pos) = "/" THEN NoTag
    ELSE read_tag_name(chars, pos, ScanUntil(NameStop, chars, pos))

\* read_opening_tag: the tag at `start`, or NoTag (None) for a closing or
\* malformed tag
read_opening_tag(chars, start) ==
    IF start >= Len(chars) \/ At(chars, start) # "<" THEN NoTag
    ELSE read_tag_at(chars, SkipWhitespace(chars, start + 1))

\* format!("</{}>", tag)
close_tag_of(tag) == <<"<", "/">> \o tag \o <<">">>

\* format!("<{}", tag)
open_pattern_of(tag) == <<"<">> \o tag

\* `chars[pos..].iter().take(close_tag.len() + 5)` lower-cased; String::len
\* counts bytes
remainder_lower(chars, pos, tag) ==
    to_lowercase(Slice(chars, pos, Min(Len(chars), pos + byte_len(close_tag_of(tag)) + 5)))

\* `remainder_lower.starts_with(&open_pattern)` and the character after the
\* pattern ends a tag name
opens_same_tag(chars, pos, tag, rem, next_char_pos) ==
    /\ starts_with(rem, open_pattern_of(tag))
    /\ next_char_pos < Len(chars)
    /\ At(chars, next_char_pos) \in NameStop

RECURSIVE read_until_closing_from(_, _, _, _, _)

\* The body of `if chars[pos] == '<'` in read_until_closing; rem is
\* remainder_lower and closes is whether it starts with the closing tag
read_until_closing_at(chars, start, tag, pos, depth, rem, closes) ==
    IF closes /\ depth = 1
    THEN [inner |-> Slice(chars, start, pos), end |-> pos + byte_len(close_tag_of(tag))]
    ELSE read_until_closing_from(chars, start, tag, pos + 1,
             (IF closes THEN depth - 1 ELSE depth)
                 + (IF opens_same_tag(chars, pos, tag, rem,
                                      pos + byte_len(open_pattern_of(tag)))
                    THEN 1 ELSE 0))

\* The loop of read_until_closing at cursor pos with the nesting depth so far;
\* characters other than `<` only move the cursor
read_until_closing_from(chars, start, tag, pos, depth) ==
    IF pos >= Len(chars)
    THEN [inner |-> Slice(chars, start, Len(chars)), end |-> Len(chars)]
    ELSE IF At(chars, pos) # "<"
         THEN read_until_closing_from(chars, start, tag, ScanUntil({"<"}, chars, pos), depth)
         ELSE read_until_closing_at(chars, start, tag, pos, depth,
                  remainder_lower(chars, pos, tag),
                  starts_with(remainder_lower(chars, pos, tag), close_tag_of(tag)))

\* read_until_closing: (inner_html, position after the closing tag); it always
\* returns Some, the rest of the input when no closing tag balances the opening
read_until_closing(chars, start, tag) ==
    read_until_closing_from(chars, start, tag, start, 1)

\* ------------------------------------------------------------------------
\* Byte-indexed string operations (str::find, the slices &s[a..b])
\* ------------------------------------------------------------------------

\* An Option<usize>: None is -1
first_or_none(S) == IF S = {} THEN -1 ELSE Least(S)

\* The character positions at which pat occurs in s
Occurrences(s, pat) ==
    {k \in 0..(Len(s) - Len(pat)) : SubSeq(s, k + 1, k + Len(pat)) = pat}

\* The byte offset of character position k of s
byte_offset(s, k) == byte_len(Slice(s, 0, k))

\* The byte offset of an optional character position
byte_offset_or_none(s, k) == IF k < 0 THEN -1 ELSE byte_offset(s, k)

\* str::find: the byte offset of the first occurrence of pat in s, or None
str_find(s, pat) == byte_offset_or_none(s, first_or_none(Occurrences(s, pat)))

\* str::is_char_boundary: byte offset b starts a character of s, or is s.len()
is_char_boundary(s, b) == \E k \in 0..Len(s) : byte_offset(s, k) = b

\* The character position of the boundary at byte offset b
char_index(s, b) == CHOOSE k \in 0..Len(s) : byte_offset(s, k) = b

\* A result that is either a value or a panic of the Rust runtime
Ok(v) == [ok |-> TRUE, v |-> v]

Panic == [ok |-> FALSE, v |-> <<>>]

\* &s[a..b] for byte offsets a and b: a panic unless a <= b and both are
\* character boundaries of s
byte_slice(s, a, b) ==
    IF a <= b /\ is_char_boundary(s, a) /\ is_char_boundary(s, b)
    THEN Ok(Slice(s, char_index(s, a), char_index(s, b)))
    ELSE Panic

\* format!("{}{}", x, y) of two slices
concat_slices(x, y) == IF x.ok /\ y.ok THEN Ok(x.v \o y.v) ELSE Panic

RECURSIVE strip_closing_tags(_, _)

\* The next round of the first loop, unless the slices panicked
strip_closing_next(r, close) == IF r.ok THEN strip_closing_tags(r.v, close) ELSE Panic

\* The body of the first loop: idx was found in the lower-cased copy and slices
\* the original
strip_closing_at(result, close, idx) ==
    IF idx < 0 THEN Ok(result)
    ELSE strip_closing_next(
             concat_slices(byte_slice(result, 0, idx),
                           byte_slice(result, idx + byte_len(close), byte_len(result))),
             close)

\* The first loop of strip_tags_simple: `while let Some(idx) =
\* result.to_lowercase().find(&close)`
strip_closing_tags(result, close) ==
    strip_closing_at(result, close, str_find(to_lowercase(result), close))

RECURSIVE strip_opening_tags(_, _)

\* The next round of the second loop, unless the slices panicked
strip_opening_next(r, open) == IF r.ok THEN strip_opening_tags(r.v, open) ELSE Panic

\* `if let Some(end) = result[idx..].find('>')`: cut idx..=idx+end, else break
strip_opening_end(result, open, idx, end) ==
    IF end < 0 THEN Ok(result)
    ELSE strip_opening_next(
             concat_slices(byte_slice(result, 0, idx),
                           byte_slice(result, idx + end + 1, byte_len(result))),
             open)

\* result[idx..], which panics when idx is no boundary of the original
strip_opening_tail(result, open, idx, tail) ==
    IF tail.ok THEN strip_opening_end(result, open, idx, str_find(tail.v, <<">">>))
    ELSE Panic

\* `if let Some(idx) = lower.find(&open)`
strip_opening_at(result, open, idx) ==
    IF idx < 0 THEN Ok(result)
    ELSE strip_opening_tail(result, open, idx, byte_slice(result, idx, byte_len(result)))

\* The second loop of strip_tags_simple: every `<tag` up to the next `>`
strip_opening_tags(result, open) ==
    strip_opening_at(result, open, str_find(to_lowercase(result), open))

\* The second loop runs on what the first loop left
strip_opening_of(closed, open) ==
    IF closed.ok THEN strip_opening_tags(closed.v, open) ELSE Panic

\* strip_tags_simple(html, tag)
strip_tags_simple(html, tag) ==
    strip_opening_of(strip_closing_tags(html, close_tag_of(tag)), open_pattern_of(tag))

\* ------------------------------------------------------------------------
\* Entity decoding
\* ------------------------------------------------------------------------

RECURSIVE str_replace(_, _, _)

\* The occurrence at character position k replaced, then the rest of s
str_replace_at(s, pat, rep, k) ==
    IF k < 0 THEN s
    ELSE Slice(s, 0, k) \o rep \o str_replace(Slice(s, k + Len(pat), Len(s)), pat, rep)

\* str::replace: every non-overlapping occurrence of pat, left to right
str_replace(s, pat, rep) ==
    IF Len(s) < Len(pat) THEN s
    ELSE str_replace_at(s, pat, rep, first_or_none(Occurrences(s, pat)))

\* The table of decode_html_entities, in the order of its .replace calls
EntityTable ==
    << << <<"&", "a", "m", "p", ";">>, <<"&">> >>,
       << <<"&", "l", "t", ";">>, <<"<">> >>,
       << <<"&", "g", "t", ";">>, <<">">> >>,
       << <<"&", "q", "u", "o", "t", ";">>, <<"\"">> >>,
       << <<"&", "#", "3", "9", ";">>, <<"'">> >>,
       << <<"&", "a", "p", "o", "s", ";">>, <<"'">> >>,
       << <<"&", "n", "b", "s", "p", ";">>, <<" ">> >>,
       << <<"&", "#", "x", "2", "7", ";">>, <<"'">> >>,
       << <<"&", "#", "x", "2", "F", ";">>, <<"/">> >>,
       << <<"&", "m", "d", "a", "s", "h", ";">>, <<"U+2014">> >>,
       << <<"&", "n", "d", "a", "s", "h", ";">>, <<"U+2013">> >>,
       << <<"&", "h", "e", "l", "l", "i", "p", ";">>, <<"U+2026">> >>,
       << <<"&", "l", "s", "q", "u", "o", ";">>, <<"U+2018">> >>,
       << <<"&", "r", "s", "q", "u", "o", ";">>, <<"U+2019">> >>,
       << <<"&", "l", "d", "q", "u", "o", ";">>, <<"U+201C">> >>,
       << <<"&", "r", "d", "q", "u", "o", ";">>, <<"U+201D">> >> >>

RECURSIVE replace_chain(_, _)
\* text.replace(e1, g1).replace(e2, g2)...: the entries from index i on
replace_chain(text, i) ==
    IF i > Len(EntityTable) THEN text
    ELSE IF Occurrences(text, EntityTable[i][1]) = {} THEN replace_chain(text, i + 1)
    ELSE replace_chain(str_replace(text, EntityTable[i][1], EntityTable[i][2]), i + 1)

\* decode_html_entities
decode_html_entities(text) == replace_chain(text, 1)

\* ------------------------------------------------------------------------
\* Inline parser
\* ------------------------------------------------------------------------

\* InlineNode
InlineNode(text, f) ==
    [text |-> text, bold |-> f.bold, italic |-> f.italic,
     underline |-> f.underline, code |-> f.code]

\* The flags parse_inline starts with
NoFlags == [bold |-> FALSE, italic |-> FALSE, underline |-> FALSE, code |-> FALSE]

\* The match on tag_info.name in parse_inline and parse_inline_with_flags: the
\* flags handed to the recursive call for the children of tag `name`
child_flags(name, f) ==
    IF name \in {<<"s", "t", "r", "o", "n", "g">>, <<"b">>} THEN [f EXCEPT !.bold = TRUE]
    ELSE IF name \in {<<"e", "m">>, <<"i">>} THEN [f EXCEPT !.italic = TRUE]
    ELSE IF name \in {<<"u">>, <<"a">>} THEN [f EXCEPT !.underline = TRUE]
    ELSE IF name = <<"c", "o", "d", "e">> THEN [f EXCEPT !.code = TRUE]
    ELSE f

\* `if pos < chars.len() { pos += 1; }`
step_over(chars, pos) == IF pos < Len(chars) THEN pos + 1 ELSE pos

\* The else branch of `if let Some(tag_info)`: skip to just after the next `>`
skip_past_gt(chars, pos) == step_over(chars, ScanUntil({">"}, chars, pos))

RECURSIVE inline_loop(_, _, _, _)

\* The arms that read up to the closing tag: r is (inner, end); the children
\* are parsed with the flags of the tag and the loop continues at end
inline_element(chars, f, nodes, name, r) ==
    inline_loop(chars, r.end, f, nodes \o inline_loop(r.inner, 0, child_flags(name, f), <<>>))

\* `if chars[pos] == '<'`: tag_info is what read_opening_tag returned
inline_tag(chars, pos, f, nodes, tag_info) ==
    IF ~tag_info.some
    THEN inline_loop(chars, skip_past_gt(chars, pos), f, nodes)
    ELSE IF tag_info.name = <<"b", "r">>
         THEN inline_loop(chars, tag_info.end, f, Append(nodes, InlineNode(<<"\n">>, f)))
         ELSE inline_element(chars, f, nodes, tag_info.name,
                  read_until_closing(chars, tag_info.end, tag_info.name))

\* Regular text from pos up to stop, the next `<` or the end
inline_text(chars, pos, f, nodes, stop) ==
    inline_loop(chars, stop, f,
        IF stop > pos
        THEN Append(nodes, InlineNode(decode_html_entities(Slice(chars, pos, stop)), f))
        ELSE nodes)

\* The while loop shared by parse_inline and parse_inline_with_flags, from
\* cursor pos with the nodes collected so far
inline_loop(chars, pos, f, nodes) ==
    IF pos >= Len(chars) THEN nodes
    ELSE IF At(chars, pos) = "<"
         THEN inline_tag(chars, pos, f, nodes, read_opening_tag(chars, pos))
         ELSE inline_text(chars, pos, f, nodes, ScanUntil({"<"}, chars, pos))

\* parse_inline_with_flags
parse_inline_with_flags(html, bold, italic, underline, code) ==
    inline_loop(html, 0,
        [bold |-> bold, italic |-> italic, underline |-> underline, code |-> code], <<>>)

\* parse_inline
parse_inline(html) == inline_loop(html, 0, NoFlags, <<>>)

\* ------------------------------------------------------------------------
\* Lists and tables
\* ------------------------------------------------------------------------

\* `if let Some(tag_info) = read_opening_tag(..) { if tag_info.name == .. `
opens_tag(tag_info, names) == tag_info.some /\ tag_info.name \in names

\* The first position p >= pos at which a tag named in `names` opens, or
\* chars.len(): where the loops that step by `pos += 1` act next
next_tag_in(chars, pos, names) ==
    Least({p \in pos..Max(pos, Len(chars)) :
              p >= Len(chars) \/ opens_tag(read_opening_tag(chars, p), names)})

RECURSIVE parse_items_from(_, _, _, _)

\* One element pushed: parse_inline of its content without <p> wrappers; a
\* panic of strip_tags_simple ends the loop
parse_item_push(chars, names, items, end, stripped) ==
    IF stripped.ok
    THEN parse_items_from(chars, end, names, Append(items, parse_inline(stripped.v)))
    ELSE Panic

\* r is (inner, end) of the element
parse_item_inner(chars, names, items, r) ==
    parse_item_push(chars, names, items, r.end, strip_tags_simple(r.inner, <<"p">>))

\* The element that opens with tag_info
parse_item(chars, names, items, tag_info) ==
    parse_item_inner(chars, names, items,
                     read_until_closing(chars, tag_info.end, tag_info.name))

\* At p, where the next element opens, or at the end
parse_items_at(chars, p, names, items) ==
    IF p >= Len(chars) THEN Ok(items)
    ELSE parse_item(chars, names, items, read_opening_tag(chars, p))

\* The loop shared by parse_list_items (names: li) and parse_table_row (names:
\* td, th), from cursor pos with the elements collected so far
parse_items_from(chars, pos, names, items) ==
    parse_items_at(chars, next_tag_in(chars, pos, names), names, items)

\* parse_list_items
parse_list_items(html) == parse_items_from(html, 0, {<<"l", "i">>}, <<>>)

\* parse_table_row
parse_table_row(html) == parse_items_from(html, 0, {<<"t", "d">>, <<"t", "h">>}, <<>>)

RECURSIVE parse_table_from(_, _, _)

\* One row pushed
parse_table_push(chars, rows, end, cells) ==
    IF cells.ok THEN parse_table_from(chars, end, Append(rows, cells.v)) ELSE Panic

\* r is (inner, end) of the <tr>
parse_table_tr(chars, rows, r) ==
    parse_table_push(chars, rows, r.end, parse_table_row(r.inner))

\* At p, where the next <tr> opens, or at the end
parse_table_at(chars, p, rows) ==
    IF p >= Len(chars) THEN Ok(rows)
    ELSE parse_table_tr(chars, rows,
             read_until_closing(chars, read_opening_tag(chars, p).end, <<"t", "r">>))

\* The loop of parse_table over the markup without its wrappers
parse_table_from(chars, pos, rows) ==
    parse_table_at(chars, next_tag_in(chars, pos, {<<"t", "r">>}), rows)

\* strip_tags_simple of an earlier result
strip_more(h, tag) == IF h.ok THEN strip_tags_simple(h.v, tag) ELSE Panic

\* The row loop on the stripped markup
parse_table_stripped(h) == IF h.ok THEN parse_table_from(h.v, 0, <<>>) ELSE Panic

\* parse_table: the rows of HtmlNode::Table
parse_table(html) ==
    parse_table_stripped(
        strip_more(strip_more(strip_tags_simple(html, <<"t", "h", "e", "a", "d">>),
                              <<"t", "b", "o", "d", "y">>),
                   <<"t", "f", "o", "o", "t">>))

\* ------------------------------------------------------------------------
\* Block parser
\* ------------------------------------------------------------------------

HeadingTags == {<<"h", "1">>, <<"h", "2">>, <<"h", "3">>, <<"h", "4">>, <<"h", "5">>, <<"h", "6">>}

WrapperTags == {<<"d", "i", "v">>, <<"s", "e", "c", "t", "i", "o", "n">>,
                <<"a", "r", "t", "i", "c", "l", "e">>, <<"m", "a", "i", "n">>,
                <<"h", "e", "a", "d", "e", "r">>, <<"f", "o", "o", "t", "e", "r">>}

\* tag_name[1..].parse::<u8>().unwrap_or(1) for the tags h1..h6
heading_digit(d) ==
    IF d = "1" THEN 1 ELSE IF d = "2" THEN 2 ELSE IF d = "3" THEN 3
    ELSE IF d = "4" THEN 4 ELSE IF d = "5" THEN 5 ELSE IF d = "6" THEN 6 ELSE 1

heading_level(tag_name) == heading_digit(tag_name[2])

\* The positions of the attributes named key
attr_positions(attrs, key) == {i \in 1..Len(attrs) : attrs[i][1] = key}

\* The value at the first of the positions, or the empty string
attr_first(attrs, at) == IF at = {} THEN <<>> ELSE attrs[Least(at)][2]

\* attrs.iter().find(|(k, _)| k == key).map(|(_, v)| v.clone()).unwrap_or_default()
attr_value(attrs, key) == attr_first(attrs, attr_positions(attrs, key))

\* One pass of the outer loop of parse_html: the cursor after it and the
\* nodes it pushed; ok is FALSE when strip_tags_simple panicked
BlockStep(ok, pos, nodes) == [ok |-> ok, pos |-> pos, nodes |-> nodes]

\* HtmlNode
Heading(level, children) == [kind |-> "Heading", level |-> level, children |-> children]

Paragraph(children) == [kind |-> "Paragraph", children |-> children]

ListNode(tag_name, items) ==
    [kind |-> IF tag_name = <<"u", "l">> THEN "UnorderedList" ELSE "OrderedList",
     items |-> items]

Blockquote(children) == [kind |-> "Blockquote", children |-> children]

CodeBlock(text) == [kind |-> "CodeBlock", text |-> text]

HorizontalRule == [kind |-> "HorizontalRule"]

Table(rows) == [kind |-> "Table", rows |-> rows]

Image(src, alt) == [kind |-> "Image", src |-> src, alt |-> alt]

\* The arms of parse_html that push a node built from a result that may have
\* panicked
list_arm(tag_name, items) ==
    IF items.ok THEN Ok(<<ListNode(tag_name, items.v)>>) ELSE Panic

blockquote_arm(stripped) ==
    IF stripped.ok THEN Ok(<<Blockquote(parse_inline(stripped.v))>>) ELSE Panic

pre_arm(code_text) ==
    IF code_text.ok THEN Ok(<<CodeBlock(decode_html_entities(code_text.v))>>) ELSE Panic

table_arm(rows) == IF rows.ok THEN Ok(<<Table(rows.v)>>) ELSE Panic

wrapper_arm(inner_nodes) == IF inner_nodes.ok THEN Ok(inner_nodes.nodes) ELSE Panic

RECURSIVE parse_html_from(_, _, _)

\* `match tag_name.as_str()` for the arms that read up to the closing tag: the
\* nodes the arm pushes for the content `inner`
element_nodes(tag_name, inner) ==
    IF tag_name \in HeadingTags
    THEN Ok(<<Heading(heading_level(tag_name), parse_inline(inner))>>)
    ELSE IF tag_name = <<"p">> THEN Ok(<<Paragraph(parse_inline(inner))>>)
    ELSE IF tag_name \in {<<"u", "l">>, <<"o", "l">>}
    THEN list_arm(tag_name, parse_list_items(inner))
    ELSE IF tag_name = <<"b", "l", "o", "c", "k", "q", "u", "o", "t", "e">>
    THEN blockquote_arm(strip_tags_simple(inner, <<"p">>))
    ELSE IF tag_name = <<"p", "r", "e">>
    THEN pre_arm(strip_tags_simple(inner, <<"c", "o", "d", "e">>))
    ELSE IF tag_name = <<"t", "a", "b", "l", "e">> THEN table_arm(parse_table(inner))
    ELSE IF tag_name \in WrapperTags
    THEN wrapper_arm(parse_html_from(trim(inner), 0, <<>>))
    ELSE Ok(<<>>)

\* The step of an arm: the nodes pushed and `pos = end`
element_step(pos, end, pushed) ==
    IF pushed.ok THEN BlockStep(TRUE, end, pushed.v) ELSE BlockStep(FALSE, pos, <<>>)

\* An arm that reads up to the closing tag; r is (inner, end)
block_element(pos, tag_name, r) ==
    element_step(pos, r.end, element_nodes(tag_name, r.inner))

\* `if let Some(tag_info) = read_opening_tag(&chars, pos)` and the match on
\* the lower-cased name
block_tag(chars, pos, tag_info, tag_name) ==
    IF ~tag_info.some THEN BlockStep(TRUE, pos + 1, <<>>)
    ELSE IF tag_name = <<"h", "r">> THEN BlockStep(TRUE, tag_info.end, <<HorizontalRule>>)
    ELSE IF tag_name = <<"i", "m", "g">>
    THEN BlockStep(TRUE, tag_info.end,
             <<Image(attr_value(tag_info.attrs, <<"s", "r", "c">>),
                     attr_value(tag_info.attrs, <<"a", "l", "t">>))>>)
    ELSE IF tag_name = <<"b", "r">> THEN BlockStep(TRUE, tag_info.end, <<>>)
    ELSE block_element(pos, tag_name, read_until_closing(chars, tag_info.end, tag_name))

\* The tag that read_opening_tag returned, with tag_info.name.to_lowercase()
block_tag_info(chars, pos, tag_info) ==
    block_tag(chars, pos, tag_info, to_lowercase(tag_info.name))

\* Plain text outside any block tag, trimmed: a paragraph unless it is empty
text_paragraph(trimmed) ==
    IF trimmed # <<>>
    THEN <<Paragraph(<<InlineNode(decode_html_entities(trimmed), NoFlags)>>)>>
    ELSE <<>>

\* The loop body with the whitespace between blocks skipped, at pos
block_at(chars, pos) ==
    IF pos >= Len(chars) THEN BlockStep(TRUE, pos, <<>>)
    ELSE IF At(chars, pos) = "<"
         THEN block_tag_info(chars, pos, read_opening_tag(chars, pos))
         ELSE BlockStep(TRUE, ScanUntil({"<"}, chars, pos),
                  text_paragraph(trim(Slice(chars, pos, ScanUntil({"<"}, chars, pos)))))

\* The body of `while pos < len` in parse_html, entered with pos0 < len
parse_html_step(chars, pos0) == block_at(chars, SkipWhitespace(chars, pos0))

\* The rest of the outer loop after the pass s
parse_html_next(chars, pos, nodes, s) ==
    IF s.ok THEN parse_html_from(chars, s.pos, nodes \o s.nodes)
    ELSE BlockStep(FALSE, pos, nodes)

\* The outer loop of parse_html over the trimmed markup, from cursor pos
parse_html_from(chars, pos, nodes) ==
    IF pos >= Len(chars) THEN BlockStep(TRUE, pos, nodes)
    ELSE parse_html_next(chars, pos, nodes, parse_html_step(chars, pos))

\* parse_html
parse_html(html) == parse_html_from(trim(html), 0, <<>>)

\* ------------------------------------------------------------------------
\* Flow-document renderer (build_docx)
\* ------------------------------------------------------------------------

\* A Run of the flow document: its text and the run-level toggles set on it
\* (size 0: no size set)
DocxRun(text, bold, italic, underline, mono, size) ==
    [text |-> text, bold |-> bold, italic |-> italic, underline |-> underline,
     mono |-> mono, size |-> size]

PlainRun(text) == DocxRun(text, FALSE, FALSE, FALSE, FALSE, 0)

\* A Paragraph of the flow document
DocxParagraph(runs, indent, align) ==
    [elem |-> "paragraph", runs |-> runs, indent |-> indent, align |-> align]

\* inline_nodes_to_runs
inline_nodes_to_runs(children) ==
    [i \in 1..Len(children) |->
        DocxRun(children[i].text, children[i].bold, children[i].italic,
                children[i].underline, children[i].code, 0)]

\* The size match of the Heading arm of build_docx
docx_heading_size(level) ==
    IF level = 1 THEN 36 ELSE IF level = 2 THEN 30 ELSE IF level = 3 THEN 26 ELSE 24

RECURSIVE split_on(_, _)

\* The piece before the separator at character position k, then the rest
split_at(text, sep, k) ==
    IF k < 0 THEN <<text>>
    ELSE <<Slice(text, 0, k)>> \o split_on(Slice(text, k + 1, Len(text)), sep)

\* str::split(sep) for a one-character separator: the pieces, at least one
split_on(text, sep) == split_at(text, sep, first_or_none(Occurrences(text, <<sep>>)))

\* The pieces without a final empty piece
drop_last_empty(pieces) ==
    IF pieces[Len(pieces)] = <<>> THEN SubSeq(pieces, 1, Len(pieces) - 1) ELSE pieces

\* str::lines: the pieces between newlines, without a final empty piece
lines_of(text) == drop_last_empty(split_on(text, "\n"))

\* The decimal digits of "{}" for the ordinals the model reaches
Digits == <<"0", "1", "2", "3", "4", "5", "6", "7", "8", "9">>

RECURSIVE format_number(_)
\* format!("{}", n) for n >= 0
format_number(n) ==
    IF n < 10 THEN <<Digits[n + 1]>> ELSE format_number(n \div 10) \o <<Digits[(n % 10) + 1]>>

Base64Alphabet ==
    {UpperAscii[i] : i \in 1..26} \cup {LowerAscii[i] : i \in 1..26}
        \cup {Digits[i] : i \in 1..10} \cup {"+", "/"}

\* The base64 alphabet in the order of its values 0..63
Base64Symbols == UpperAscii \o LowerAscii \o Digits \o <<"+", "/">>

\* The six bits a symbol of the alphabet stands for
base64_value(c) == (CHOOSE i \in 1..64 : Base64Symbols[i] = c) - 1

\* base64::engine::general_purpose::STANDARD.decode(data).is_ok(): groups of four
\* alphabet characters, the last group padded with at most two `=`, and the
\* bits of the last symbol that no byte takes are zero
base64_decode_ok(data) ==
    LET n == Len(data)
        pad == IF n >= 2 /\ data[n] = "=" /\ data[n - 1] = "=" THEN 2
               ELSE IF n >= 1 /\ data[n] = "=" THEN 1 ELSE 0
    IN  /\ n % 4 = 0
        /\ \A i \in 1..(n - pad) : data[i] \in Base64Alphabet
        /\ pad = 2 => base64_value(data[n - 2]) % 16 = 0
        /\ pad = 1 => base64_value(data[n - 1]) % 4 = 0

DataPng == <<"d", "a", "t", "a", ":", "i", "m", "a", "g", "e", "/", "p", "n", "g", ";",
             "b", "a", "s", "e", "6", "4", ",">>

DataJpeg == <<"d", "a", "t", "a", ":", "i", "m", "a", "g", "e", "/", "j", "p", "e", "g", ";",
              "b", "a", "s", "e", "6", "4", ",">>

ImagePlaceholder == <<"[", "I", "m", "a", "g", "e", "]">>

BulletPrefix == <<"U+2022", " ", " ">>

\* The Heading arm: every run bold at twice the size, italic and underlined as
\* the child is
docx_heading_runs(children, size) ==
    [i \in 1..Len(children) |->
        DocxRun(children[i].text, TRUE, children[i].italic, children[i].underline,
                FALSE, size * 2)]

\* The Blockquote arm: every run italic, bold as the child is
docx_quote_runs(children) ==
    [i \in 1..Len(children) |->
        DocxRun(children[i].text, children[i].bold, TRUE, FALSE, FALSE, 0)]

\* The UnorderedList and OrderedList arms: one indented paragraph per item
docx_list(items, ordered) ==
    [i \in 1..Len(items) |->
        DocxParagraph(
            <<PlainRun(IF ordered THEN format_number(i) \o <<".", " ">> ELSE BulletPrefix)>>
                \o inline_nodes_to_runs(items[i]),
            720, "left")]

\* The CodeBlock arm: one paragraph per line of text.lines()
docx_code(lines) ==
    [i \in 1..Len(lines) |->
        DocxParagraph(<<DocxRun(lines[i], FALSE, FALSE, FALSE, TRUE, 0)>>, 360, "left")]

\* rows.iter().map(|r| r.len()).max().unwrap_or(0)
col_count_of(rows) ==
    IF rows = <<>> THEN 0
    ELSE CHOOSE n \in {Len(rows[i]) : i \in 1..Len(rows)} :
             \A i \in 1..Len(rows) : Len(rows[i]) <= n

\* A TableRow that is not padded: a cell per cell of the row and no more
docx_table_row_unpadded(row_cells, col_count) ==
    [j \in 1..Len(row_cells) |->
        DocxParagraph(inline_nodes_to_runs(row_cells[j]), 0, "left")]

\* One TableRow: a cell per cell of the row, then empty cells up to col_count
docx_table_row(row_cells, col_count) ==
    [j \in 1..col_count |->
        IF j <= Len(row_cells)
        THEN DocxParagraph(inline_nodes_to_runs(row_cells[j]), 0, "left")
        ELSE DocxParagraph(<<>>, 0, "left")]

\* The Table arm: nothing for no rows or no columns
docx_table(rows, col_count) ==
    IF rows = <<>> \/ col_count = 0 THEN <<>>
    ELSE <<[elem |-> "table",
            rows |-> [i \in 1..Len(rows) |-> docx_table_row(rows[i], col_count)]]>>

\* A picture for every PNG or JPEG data URI, whether its payload decodes or not
docx_picture_undecoded(src, pieces) ==
    IF /\ starts_with(src, DataPng) \/ starts_with(src, DataJpeg)
       /\ Len(pieces) >= 2
    THEN <<[elem |-> "picture", data |-> pieces[2], align |-> "center"]>>
    ELSE <<>>

\* The picture embedded for a base64 data URI that decodes; pieces is
\* src.split(",")
docx_picture(src, pieces) ==
    IF /\ starts_with(src, DataPng) \/ starts_with(src, DataJpeg)
       /\ Len(pieces) >= 2
       /\ base64_decode_ok(pieces[2])
    THEN <<[elem |-> "picture", data |-> pieces[2], align |-> "center"]>>
    ELSE <<>>

\* The Image arm: the caption, then the picture if there is one
docx_image(src, alt) ==
    <<DocxParagraph(
          <<DocxRun(IF alt = <<>> THEN ImagePlaceholder ELSE alt, FALSE, TRUE, FALSE, FALSE, 0)>>,
          0, "center")>>
        \o docx_picture(src, split_on(src, ","))

\* The elements build_docx adds for one node of the model
docx_node(node) ==
    IF node.kind = "Heading"
    THEN <<DocxParagraph(
               docx_heading_runs(node.children, docx_heading_size(node.level)), 0, "left")>>
    ELSE IF node.kind = "Paragraph"
    THEN <<DocxParagraph(inline_nodes_to_runs(node.children), 0, "left")>>
    ELSE IF node.kind = "UnorderedList" THEN docx_list(node.items, FALSE)
    ELSE IF node.kind = "OrderedList" THEN docx_list(node.items, TRUE)
    ELSE IF node.kind = "Blockquote"
    THEN <<DocxParagraph(docx_quote_runs(node.children), 720, "left")>>
    ELSE IF node.kind = "CodeBlock" THEN docx_code(lines_of(node.text))
    ELSE IF node.kind = "HorizontalRule"
    THEN <<DocxParagraph(<<PlainRun([i \in 1..40 |-> "_"])>>, 0, "left")>>
    ELSE IF node.kind = "Table" THEN docx_table(node.rows, col_count_of(node.rows))
    ELSE docx_image(node.src, node.alt)

RECURSIVE docx_nodes(_, _)
\* `for node in &nodes` of build_docx, from node i on
docx_nodes(nodes, i) ==
    IF i > Len(nodes) THEN <<>> ELSE docx_node(nodes[i]) \o docx_nodes(nodes, i + 1)

\* A build_docx that leaves the title out
build_docx_untitled(title, nodes) ==
    <<DocxParagraph(<<>>, 0, "center"), DocxParagraph(<<>>, 0, "left")>>
        \o docx_nodes(nodes, 1)

\* build_docx after parse_html: the title, the spacer, then the nodes in order
build_docx(title, nodes) ==
    <<DocxParagraph(<<DocxRun(title, TRUE, FALSE, FALSE, FALSE, 48)>>, 0, "center"),
      DocxParagraph(<<>>, 0, "left")>>
        \o docx_nodes(nodes, 1)

\* ------------------------------------------------------------------------
\* Page renderer (PdfWriter, build_pdf)
\*
\* Lengths are integers in units of 1/Unit mm; the source computes them in
\* f32.  Tenths(n) is n/10 mm, so that 1.5 mm is Tenths(15).
\* ------------------------------------------------------------------------

Unit == 10 * 100

Mm(n) == n * Unit

Tenths(n) == (n * Unit) \div 10

A4_WIDTH_MM == 210

A4_HEIGHT_MM == 297

MARGIN_LEFT == 25

MARGIN_RIGHT == 25

MARGIN_TOP == 25

MARGIN_BOTTOM == 25

\* USABLE_WIDTH, in units
USABLE_WIDTH == Mm(A4_WIDTH_MM - MARGIN_LEFT - MARGIN_RIGHT)

\* PT_PER_MM = 2.8346, times 10^4
PT_PER_MM_E4 == 28346

\* font_size_pt / PT_PER_MM * factor, for a factor given in tenths (1.4, 1.5)
line_height(font_size_pt, factor_tenths) ==
    (font_size_pt * factor_tenths * 1000 * Unit) \div PT_PER_MM_E4

\* The page, the layer, the cursor and the page count of a writer
Cursor(w) ==
    [current_page |-> w.current_page, current_layer |-> w.current_layer,
     y_pos |-> w.y_pos, page_count |-> w.page_count]

\* PdfWriter::new: one page with "Layer 1", the cursor at the top margin, nothing
\* drawn.  A layer is named by the number in its name.
\* (needed, before: the amount the last ensure_space was asked for and the
\* cursor it found, kept with the text it precedes so that the drawing log
\* shows the room each line was given)
NewWriter ==
    [current_page |-> 1, current_layer |-> 1, y_pos |-> Mm(A4_HEIGHT_MM - MARGIN_TOP),
     page_count |-> 1, needed |-> 0,
     before |-> [current_page |-> 1, current_layer |-> 1,
                 y_pos |-> Mm(A4_HEIGHT_MM - MARGIN_TOP), page_count |-> 1],
     ops |-> <<>>]

\* A new_page that counts the page but goes on drawing on the old one
new_page_not_current(w) ==
    [w EXCEPT !.y_pos = Mm(A4_HEIGHT_MM - MARGIN_TOP),
              !.page_count = w.page_count + 1]

\* PdfWriter::new_page
new_page(w) ==
    [w EXCEPT !.current_page = w.page_count + 1,
              !.current_layer = w.page_count + 1,
              !.y_pos = Mm(A4_HEIGHT_MM - MARGIN_TOP),
              !.page_count = w.page_count + 1]

\* An ensure_space that looks at the cursor alone, not at the room asked for
ensure_space_cursor_only(w, needed) ==
    IF w.y_pos < Mm(MARGIN_BOTTOM)
    THEN new_page([w EXCEPT !.needed = needed, !.before = Cursor(w)])
    ELSE [w EXCEPT !.needed = needed, !.before = Cursor(w)]

\* PdfWriter::ensure_space
ensure_space(w, needed) ==
    IF w.y_pos - needed < Mm(MARGIN_BOTTOM)
    THEN new_page([w EXCEPT !.needed = needed, !.before = Cursor(w)])
    ELSE [w EXCEPT !.needed = needed, !.before = Cursor(w)]

\* PdfWriter::select_font
select_font(bold, italic, code) ==
    IF code THEN "font_mono"
    ELSE IF bold /\ italic THEN "font_bold_italic"
    ELSE IF bold THEN "font_bold"
    ELSE IF italic THEN "font_italic"
    ELSE "font_regular"

\* char_width_pt / PT_PER_MM in units, for avg_char_width_ratio in hundredths
char_width_mm(font_size_pt, ratio_hundredths) ==
    (font_size_pt * ratio_hundredths * 100 * Unit) \div PT_PER_MM_E4

\* PdfWriter::approx_text_width_mm, in units
approx_text_width_mm(text, font_size_pt, is_mono) ==
    Len(text) * char_width_mm(font_size_pt, IF is_mono THEN 60 ELSE 52)

RECURSIVE split_whitespace(_)

\* The word from `from` to `to`, then the words of the rest
split_word(text, from, to) ==
    <<Slice(text, from, to)>> \o split_whitespace(Slice(text, to, Len(text)))

\* The words from the first non-whitespace character on
split_from(text, from) ==
    IF from >= Len(text) THEN <<>>
    ELSE split_word(text, from, ScanUntil(Whitespace, text, from))

\* str::split_whitespace: the maximal runs of non-whitespace characters
split_whitespace(text) == split_from(text, SkipWhitespace(text, 0))

RECURSIVE wrap_words(_, _, _, _, _, _)

\* A wrap that breaks the line before every word that ends beyond the width,
\* also when that leaves an empty line
wrap_word_eager(words, i, current_line, test, font_size_pt, max_width, is_mono) ==
    IF approx_text_width_mm(test, font_size_pt, is_mono) >= max_width \div 2
           /\ current_line # <<>>
    THEN <<current_line>>
             \o wrap_words(words, i + 1, words[i], font_size_pt, max_width, is_mono)
    ELSE wrap_words(words, i + 1, test, font_size_pt, max_width, is_mono)

\* The body of `for word in &words`: test is current_line with the word added
wrap_word(words, i, current_line, test, font_size_pt, max_width, is_mono) ==
    IF approx_text_width_mm(test, font_size_pt, is_mono) > max_width /\ current_line # <<>>
    THEN <<current_line>>
             \o wrap_words(words, i + 1, words[i], font_size_pt, max_width, is_mono)
    ELSE wrap_words(words, i + 1, test, font_size_pt, max_width, is_mono)

\* The `for word in &words` loop of wrap_text and the flush after it
wrap_words(words, i, current_line, font_size_pt, max_width, is_mono) ==
    IF i > Len(words)
    THEN IF current_line # <<>> THEN <<current_line>> ELSE <<>>
    ELSE wrap_word(words, i, current_line,
             IF current_line = <<>> THEN words[i] ELSE current_line \o <<" ">> \o words[i],
             font_size_pt, max_width, is_mono)

\* A wrap that gives no line for a hard line without words
wrap_hard_line_skipping_blank(words, font_size_pt, max_width, is_mono) ==
    wrap_words(words, 1, <<>>, font_size_pt, max_width, is_mono)

\* The lines of one hard line: an empty line when it has no words
wrap_hard_line(words, font_size_pt, max_width, is_mono) ==
    IF words = <<>> THEN << <<>> >>
    ELSE wrap_words(words, 1, <<>>, font_size_pt, max_width, is_mono)

RECURSIVE wrap_hard_lines(_, _, _, _, _)
\* The `for hard_line in text.split('\n')` loop of wrap_text
wrap_hard_lines(hard, i, font_size_pt, max_width, is_mono) ==
    IF i > Len(hard) THEN <<>>
    ELSE wrap_hard_line(split_whitespace(hard[i]), font_size_pt, max_width, is_mono)
             \o wrap_hard_lines(hard, i + 1, font_size_pt, max_width, is_mono)

\* `if lines.is_empty() { lines.push(String::new()); }`
lines_or_blank(lines) == IF lines = <<>> THEN << <<>> >> ELSE lines

\* PdfWriter::wrap_text
wrap_text(text, font_size_pt, max_width, is_mono) ==
    lines_or_blank(wrap_hard_lines(split_on(text, "\n"), 1, font_size_pt, max_width, is_mono))

\* PdfWriter::write_line: the text drawn on the current page at the cursor
write_line(w, text, font_size_pt, font, x_offset) ==
    [w EXCEPT !.ops = Append(@,
        [op |-> "text", page |-> w.current_page, y |-> w.y_pos, text |-> text,
         size |-> font_size_pt, font |-> font, x |-> Mm(MARGIN_LEFT) + x_offset,
         needed |-> w.needed, before |-> w.before, at |-> Cursor(w)])]

\* A vector line drawn on the current page (layer.add_line)
add_line(w, x1, y1, x2, y2) ==
    [w EXCEPT !.ops = Append(@,
        [op |-> "line", page |-> w.current_page, x1 |-> x1, y1 |-> y1,
         x2 |-> x2, y2 |-> y2])]

RECURSIVE concat_texts(_, _)
\* `for child in children { full_text.push_str(&child.text) }`
concat_texts(children, i) ==
    IF i > Len(children) THEN <<>> ELSE children[i].text \o concat_texts(children, i + 1)

\* The font of the child at position i, or the regular font for no child
font_of_child(children, at) ==
    IF at = {} THEN select_font(FALSE, FALSE, FALSE)
    ELSE select_font(children[Least(at)].bold, children[Least(at)].italic,
                     children[Least(at)].code)

\* A font chosen from the last child with text
dominant_font_of_last(children) ==
    LET at == {i \in 1..Len(children) : children[i].text # <<>>}
    IN  IF at = {} THEN select_font(FALSE, FALSE, FALSE)
        ELSE LET last == CHOOSE i \in at : \A j \in at : j <= i
             IN  select_font(children[last].bold, children[last].italic, children[last].code)

\* children.iter().find(|c| !c.text.is_empty()).map(|c| (c.bold, c.italic, c.code))
dominant_font(children) ==
    font_of_child(children, {i \in 1..Len(children) : children[i].text # <<>>})

\* `self.y_pos -= amount`
move_down(w, amount) == [w EXCEPT !.y_pos = @ - amount]

RECURSIVE write_lines(_, _, _, _, _, _, _)
\* `for line in &lines`: ensure_space, write_line, then the cursor goes down
\* (page_count is never below 1; looking at it evaluates the writer pass by
\* pass, which keeps the evaluation shallow)
write_lines(w, lines, i, font_size_pt, font, x_offset, height) ==
    IF i > Len(lines) \/ w.page_count < 1 THEN w
    ELSE write_lines(
             move_down(write_line(ensure_space(w, height), lines[i], font_size_pt, font,
                                  x_offset),
                       height),
             lines, i + 1, font_size_pt, font, x_offset, height)

\* PdfWriter::write_inline_block; prefix is <<>> for None
write_inline_block(w, children, font_size_pt, indent, prefix) ==
    write_lines(w,
        wrap_text(prefix \o concat_texts(children, 1), font_size_pt, USABLE_WIDTH - indent,
                  \E i \in 1..Len(children) : children[i].code),
        1, font_size_pt, dominant_font(children), indent, line_height(font_size_pt, 14))

\* `if self.y_pos < MARGIN_BOTTOM { self.new_page(); }`
page_if_below(w) == IF w.y_pos < Mm(MARGIN_BOTTOM) THEN new_page(w) ELSE w

\* A spacer that moves the cursor and never adds a page
write_spacer_unpaged(w, amount) == move_down(w, amount)

\* PdfWriter::write_spacer
write_spacer(w, amount) == page_if_below(move_down(w, amount))

\* The pdf font size match of the Heading arm of build_pdf
pdf_heading_size(level) ==
    IF level = 1 THEN 18 ELSE IF level = 2 THEN 15 ELSE IF level = 3 THEN 13 ELSE 12

\* A full-width rule at the cursor
rule_at_cursor(w) ==
    add_line(w, Mm(MARGIN_LEFT), w.y_pos, Mm(A4_WIDTH_MM - MARGIN_RIGHT), w.y_pos)

\* build_pdf up to the node loop: the title lines, a spacer, the rule, a spacer
pdf_title(w, title) ==
    write_spacer(
        rule_at_cursor(
            write_spacer(
                write_lines(w, wrap_text(title, 20, USABLE_WIDTH, FALSE), 1, 20, "font_bold",
                            0, line_height(20, 15)),
                Mm(6))),
        Mm(6))

RECURSIVE pdf_list_items(_, _, _, _)
\* The item loop of the list arms: ordered lists prefix "N. ", unordered a bullet
pdf_list_items(w, items, i, ordered) ==
    IF i > Len(items) THEN w
    ELSE pdf_list_items(
             write_spacer(
                 write_inline_block(w, items[i], 11, Mm(8),
                     IF ordered THEN format_number(i) \o <<".", " ">> ELSE BulletPrefix),
                 Tenths(15)),
             items, i + 1, ordered)

RECURSIVE pdf_code_lines(_, _, _)
\* The line loop of the CodeBlock arm
pdf_code_lines(w, lines, i) ==
    IF i > Len(lines) THEN w
    ELSE pdf_code_lines(
             write_inline_block(w,
                 <<InlineNode(lines[i], [NoFlags EXCEPT !.code = TRUE])>>, 9, Mm(6), <<>>),
             lines, i + 1)

RECURSIVE join_texts(_, _)
\* cell.iter().map(|n| n.text.clone()).collect::<Vec<_>>().join("")
join_texts(cell, i) ==
    IF i > Len(cell) THEN <<>> ELSE cell[i].text \o join_texts(cell, i + 1)

RECURSIVE row_text(_, _)
\* The cells of a row joined by "  |  "
row_text(row_cells, i) ==
    IF i > Len(row_cells) THEN <<>>
    ELSE (IF i > 1 THEN <<" ", " ", "|", " ", " ">> ELSE <<>>)
             \o join_texts(row_cells[i], 1) \o row_text(row_cells, i + 1)

RECURSIVE pdf_table_rows(_, _, _)
\* The row loop of the Table arm
pdf_table_rows(w, rows, i) ==
    IF i > Len(rows) THEN w
    ELSE pdf_table_rows(
             write_spacer(
                 write_inline_block(w, <<InlineNode(row_text(rows[i], 1), NoFlags)>>,
                                    10, 0, <<>>),
                 Mm(1)),
             rows, i + 1)

\* children with one flag forced: bold for headings, italic for blockquotes
with_bold(children) == [i \in 1..Len(children) |-> [children[i] EXCEPT !.bold = TRUE]]

with_italic(children) == [i \in 1..Len(children) |-> [children[i] EXCEPT !.italic = TRUE]]

\* The left bar of the Blockquote arm, from 2 mm above the cursor down to the
\* estimated height of est_lines lines, not below the bottom margin
blockquote_bar(w, est_lines) ==
    add_line(w, Mm(MARGIN_LEFT) + Mm(3), w.y_pos + Mm(2), Mm(MARGIN_LEFT) + Mm(3),
             Max(w.y_pos - est_lines * line_height(11, 14) - Mm(2), Mm(MARGIN_BOTTOM)))

\* The text of the Image arm
image_caption(alt) ==
    IF alt = <<>> THEN ImagePlaceholder
    ELSE <<"[", "I", "m", "a", "g", "e", ":", " ">> \o alt \o <<"]">>

\* The arms of build_pdf that end with write_inline_block and a 3 mm spacer
\* after what they draw first
pdf_block(w, children, font_size_pt, indent, after) ==
    write_spacer(write_inline_block(w, children, font_size_pt, indent, <<>>), after)

\* The body of `for node in &nodes` of build_pdf
pdf_node(w, node) ==
    IF node.kind = "Heading"
    THEN pdf_block(write_spacer(w, Mm(3)), with_bold(node.children),
                   pdf_heading_size(node.level), 0, Mm(2))
    ELSE IF node.kind = "Paragraph" THEN pdf_block(w, node.children, 11, 0, Mm(3))
    ELSE IF node.kind \in {"UnorderedList", "OrderedList"}
    THEN write_spacer(pdf_list_items(w, node.items, 1, node.kind = "OrderedList"), Mm(2))
    ELSE IF node.kind = "Blockquote"
    THEN pdf_block(blockquote_bar(w, Max(Len(node.children), 1)),
                   with_italic(node.children), 11, Mm(10), Mm(3))
    ELSE IF node.kind = "CodeBlock"
    THEN write_spacer(pdf_code_lines(write_spacer(w, Mm(2)), lines_of(node.text), 1), Mm(3))
    ELSE IF node.kind = "HorizontalRule"
    THEN write_spacer(rule_at_cursor(write_spacer(w, Mm(3))), Mm(3))
    ELSE IF node.kind = "Table"
    THEN write_spacer(pdf_table_rows(write_spacer(w, Mm(2)), node.rows, 1), Mm(2))
    ELSE pdf_block(w, <<InlineNode(image_caption(node.alt), [NoFlags EXCEPT !.italic = TRUE])>>,
                   10, 0, Mm(3))

\* ------------------------------------------------------------------------
\* One export call: export_docx(title, html_content) or export_pdf(title,
\* html_content), run on a blocking worker
\* ------------------------------------------------------------------------

VARIABLES
    doc,        \* the editor document the markup was produced from (the input's origin)
    title,      \* argument title
    html,       \* argument html_content
    format,     \* "docx" for export_docx, "pdf" for export_pdf
    pc,         \* where the call is: "parse", "docx", "pdf_title", "pdf_nodes", "done"
    chars,      \* parse_html: the trimmed markup
    pos,        \* parse_html: the cursor
    nodes,      \* parse_html: the nodes pushed so far; then the model rendered
    docx,       \* build_docx: the elements added to the document
    writer,     \* build_pdf: the PdfWriter
    node_index, \* build_pdf: the next node of `for node in &nodes`
    result,     \* what the command returned: "none" while running, "ok" for Ok(buffer),
                \* "task_failed" for "Export task failed", or the message of a build error
    library     \* which call into docx-rs or printpdf returns Err in this call: "ok" for
                \* none, a font of PdfWriter::new, "pack", "save" or "into_inner"

\* The database behind db::get_db and the background scheduler (scheduler.rs,
\* commands/scheduler.rs, the document commands of commands/export.rs)
VARIABLES
    documents,          \* table documents: per id the row (status, html_content,
                        \* version)
    document_versions,  \* table document_versions: the rows (document_id, version)
    scheduled_posts,    \* table scheduled_posts: per id the row (document_id,
                        \* platform, scheduled_at, status)
    tick,               \* the running check_and_publish: where it is, its due_posts, the
                        \* post of the loop, what it has read
    events              \* what has happened so far, in order: commands completed, posts
                        \* taken up by the scheduler, calls to the external platform

\* The state of the database and the scheduler
app_state == <<documents, document_versions, scheduled_posts, tick, events>>

\* The state of an export call
export_state ==
    <<doc, title, html, format, pc, chars, pos, nodes, docx, writer, node_index, result,
      library>>

vars == <<export_state, app_state>>

\* The scheduler not started on an empty database
NoApp ==
    /\ documents = <<>>
    /\ document_versions = {}
    /\ scheduled_posts = <<>>
    /\ tick = [pc |-> "idle"]
    /\ events = <<>>

\* The fonts of PdfWriter::new in the order they are added, with the name in the
\* message of the error each add_builtin_font is mapped to
FontErrors ==
    <<[font |-> "font_regular", message |-> "Failed to add Helvetica font"],
      [font |-> "font_bold", message |-> "Failed to add Helvetica-Bold font"],
      [font |-> "font_italic", message |-> "Failed to add Helvetica-Oblique font"],
      [font |-> "font_bold_italic", message |-> "Failed to add Helvetica-BoldOblique font"],
      [font |-> "font_mono", message |-> "Failed to add Courier font"]>>

\* PdfWriter::new(title)?: "ok" for Ok(writer), else the message of the font
\* that could not be added
new_writer_result(lib) ==
    IF \E i \in 1..Len(FontErrors) : FontErrors[i].font = lib
    THEN FontErrors[CHOOSE i \in 1..Len(FontErrors) : FontErrors[i].font = lib].message
    ELSE "ok"

\* A pack that loses the error of the archive writer
pack_result_always_ok(lib) == "ok"

\* docx.build().pack(..).map_err(..)?; Ok(buf)
pack_result(lib) == IF lib = "pack" THEN "Failed to build DOCX" ELSE "ok"

\* PdfWriter::finish: doc.save, then buf.into_inner
finish_result(lib) ==
    IF lib = "save" THEN "Failed to save PDF"
    ELSE IF lib = "into_inner" THEN "Failed to finalize PDF buffer"
    ELSE "ok"

\* The state at the start of a call with the given arguments in which the
\* library call `lib` fails
CallUnder(d, t, h, f, lib) ==
    /\ NoApp
    /\ library = lib
    /\ doc = d
    /\ title = t
    /\ html = h
    /\ format = f
    /\ pc = "parse"
    /\ chars = trim(h)
    /\ pos = 0
    /\ nodes = <<>>
    /\ docx = <<>>
    /\ writer = NewWriter
    /\ node_index = 1
    /\ result = "none"

\* The state at the start of a call with the given arguments, every library
\* call succeeding
Call(d, t, h, f) == CallUnder(d, t, h, f, "ok")

\* One pass of the outer loop of parse_html.  A panic inside it unwinds the
\* blocking task: spawn_blocking's JoinError becomes "Export task failed".
ParseStep ==
    /\ pc = "parse"
    /\ pos < Len(chars)
    /\ \E s \in {parse_html_step(chars, pos)} :
           IF s.ok
           THEN /\ pos' = s.pos
                /\ nodes' = nodes \o s.nodes
                /\ UNCHANGED <<pc, result>>
           ELSE /\ pc' = "done"
                /\ result' = "task_failed"
                /\ UNCHANGED <<pos, nodes>>
    /\ UNCHANGED <<doc, title, html, format, chars, docx, writer, node_index, library, app_state>>

\* parse_html returns; build_docx adds every element and packs the document
BuildDocx ==
    /\ pc = "parse"
    /\ pos >= Len(chars)
    /\ format = "docx"
    /\ docx' = build_docx(title, nodes)
    /\ pc' = "done"
    /\ result' = pack_result(library)
    /\ UNCHANGED <<doc, title, html, format, chars, pos, nodes, writer, node_index, library, app_state>>

\* parse_html returns; build_pdf creates the writer, returning the error if a
\* font cannot be added, and renders the title
PdfTitle ==
    /\ pc = "parse"
    /\ pos >= Len(chars)
    /\ format = "pdf"
    /\ IF new_writer_result(library) = "ok"
       THEN /\ writer' = pdf_title(NewWriter, title)
            /\ pc' = "pdf_nodes"
            /\ UNCHANGED result
       ELSE /\ pc' = "done"
            /\ result' = new_writer_result(library)
            /\ UNCHANGED writer
    /\ UNCHANGED <<doc, title, html, format, chars, pos, nodes, docx, node_index, library, app_state>>

\* One pass of `for node in &nodes` of build_pdf
PdfNode ==
    /\ pc = "pdf_nodes"
    /\ node_index <= Len(nodes)
    /\ writer' = pdf_node(writer, nodes[node_index])
    /\ node_index' = node_index + 1
    /\ UNCHANGED <<doc, title, html, format, pc, chars, pos, nodes, docx, result, library, app_state>>

\* w.finish(): the pages are saved to the buffer
PdfFinish ==
    /\ pc = "pdf_nodes"
    /\ node_index > Len(nodes)
    /\ pc' = "done"
    /\ result' = finish_result(library)
    /\ UNCHANGED <<doc, title, html, format, chars, pos, nodes, docx, writer, node_index,
                   library, app_state>>

Next == ParseStep \/ BuildDocx \/ PdfTitle \/ PdfNode \/ PdfFinish

\* ------------------------------------------------------------------------
\* Inputs: markup as the block editor produces it
\* ------------------------------------------------------------------------

\* <tag>inner</tag>
El(tag, inner) == <<"<">> \o tag \o <<">">> \o inner \o <<"<", "/">> \o tag \o <<">">>

RECURSIVE Flatten(_)
\* The concatenation of a sequence of strings
Flatten(ss) == IF ss = <<>> THEN <<>> ELSE Head(ss) \o Flatten(Tail(ss))

\* All sequences of 1..n elements of S
SeqsUpTo(S, n) == UNION {[1..k -> S] : k \in 1..n}

T_p == <<"p">>
T_b == <<"b">>
T_li == <<"l", "i">>
T_ul == <<"u", "l">>
T_ol == <<"o", "l">>
T_tr == <<"t", "r">>
T_td == <<"t", "d">>
T_th == <<"t", "h">>
T_hr == <<"h", "r">>
T_img == <<"i", "m", "g">>
T_pre == <<"p", "r", "e">>
T_code == <<"c", "o", "d", "e">>
T_table == <<"t", "a", "b", "l", "e">>
T_tbody == <<"t", "b", "o", "d", "y">>
T_blockquote == <<"b", "l", "o", "c", "k", "q", "u", "o", "t", "e">>
T_strong == <<"s", "t", "r", "o", "n", "g">>
T_em == <<"e", "m">>
T_span == <<"s", "p", "a", "n">>
T_div == <<"d", "i", "v">>
T_foo == <<"f", "o", "o">>
\* A custom element name with a letter outside ASCII
T_custom == <<"x", "-", "U+00E9">>

Txt_Title == <<"T", "i", "t", "l", "e">>
Txt_Report == <<"R", "e", "p", "o", "r", "t">>
Txt_hello == <<"h", "e", "l", "l", "o">>
Txt_world == <<"w", "o", "r", "l", "d">>
Txt_Hello_ == <<"H", "e", "l", "l", "o", " ">>
\* The text `&lt;` written in markup: its ampersand escaped
Txt_escaped_lt == <<"&", "a", "m", "p", ";", "l", "t", ";">>

\* A top-level block element of a document: its tag and its markup
Block(tag, markup) == [tag |-> tag, markup |-> markup]

HeadingBlocks ==
    {Block(<<"h", "1">>, El(<<"h", "1">>, Txt_Title))}
        \cup {Block(<<"h", d>>, El(<<"h", d>>, <<"x">>)) : d \in {"2", "3", "4", "5", "6"}}

\* <table><tr><td>A</td></tr><tr><td>B</td><td>C</td></tr></table>
TwoRowTable ==
    El(T_table, El(T_tr, El(T_td, <<"A">>))
                    \o El(T_tr, El(T_td, <<"B">>) \o El(T_td, <<"C">>)))

\* <img src="s" alt="a">
ImgTag ==
    <<"<", "i", "m", "g", " ", "s", "r", "c", "=", "\"", "s", "\"", " ",
      "a", "l", "t", "=", "\"", "a", "\"", ">">>

\* One element of every recognized top-level kind, with the content the editor
\* gives it (list items, quotes and cells wrap their text in <p>)
RecognizedBlocks ==
    HeadingBlocks \cup
    {Block(T_p, El(T_p, Txt_Hello_ \o El(T_strong, Txt_world))),
     Block(T_p, El(T_p, Txt_escaped_lt)),
     Block(T_ul, El(T_ul, El(T_li, El(T_p, <<"a">>)) \o El(T_li, <<"b">>))),
     Block(T_ol, El(T_ol, El(T_li, El(T_p, <<"a">>)))),
     Block(T_blockquote, El(T_blockquote, El(T_p, <<"q">>))),
     Block(T_blockquote, El(T_blockquote, El(T_p, <<"U+0130">>))),
     Block(T_pre, El(T_pre, El(T_code, <<"c", "\n", " ", "d">>))),
     Block(T_hr, <<"<", "h", "r", ">">>),
     Block(T_table, TwoRowTable),
     Block(T_img, ImgTag)}

\* Elements the block parser has no arm for, and a paragraph left unclosed
OtherBlocks ==
    {Block(T_foo, El(T_foo, Txt_hello)),
     Block(T_custom, El(T_custom, <<"a">>)),
     Block(T_div, El(T_div, El(T_div, El(T_p, <<"d">>)) \o El(T_p, <<"e">>)))}

BlockElements == RecognizedBlocks \cup OtherBlocks

MaxBlocks == 2

Formats == {"docx", "pdf"}

\* A document that is a sequence of top-level block elements
BlockDoc(blocks) == [family |-> "blocks", blocks |-> blocks]

BlockDocMarkup(d) == Flatten([i \in 1..Len(d.blocks) |-> d.blocks[i].markup])

InitBlocks ==
    \E blocks \in SeqsUpTo(BlockElements, MaxBlocks), f \in Formats :
        Call(BlockDoc(blocks), Txt_Report, BlockDocMarkup(BlockDoc(blocks)), f)

SpecBlocks == InitBlocks /\ [][Next]_vars

\* ------------------------------------------------------------------------
\* Inputs: a paragraph of inline elements
\* ------------------------------------------------------------------------

T_i == <<"i">>
T_u == <<"u">>
T_a == <<"a">>

\* The inline tags that set a flag, span, and two tags the parser does not know
InlineTags == {T_strong, T_b, T_em, T_i, T_u, T_a, T_code, T_span, T_foo, T_custom}

MaxNesting == 2

\* A piece of text inside the tags `tags`, the outermost first
InlineItem(tags, text) == [tags |-> tags, text |-> text]

RECURSIVE ItemMarkup(_, _)
\* The markup of an item: its text wrapped in its tags from index i on
ItemMarkup(item, i) ==
    IF i > Len(item.tags) THEN item.text ELSE El(item.tags[i], ItemMarkup(item, i + 1))

\* The text x bare or inside up to MaxNesting tags
InlineItems ==
    {InlineItem(tags, <<"x">>) : tags \in {<<>>} \cup SeqsUpTo(InlineTags, MaxNesting)}

\* What may follow the first item: nothing, or the text y inside one tag
InlineTails == {<<>>} \cup {<<InlineItem(<<t>>, <<"y">>)>> : t \in {T_b, T_em}}

\* A document that is one paragraph of inline items
InlineDoc(items) == [family |-> "inline", items |-> items]

InlineDocMarkup(d) == El(T_p, Flatten([i \in 1..Len(d.items) |-> ItemMarkup(d.items[i], 1)]))

InitInline ==
    \E item \in InlineItems, tail \in InlineTails, f \in Formats :
        Call(InlineDoc(<<item>> \o tail), Txt_Report,
             InlineDocMarkup(InlineDoc(<<item>> \o tail)), f)

SpecInline == InitInline /\ [][Next]_vars

\* ------------------------------------------------------------------------
\* Inputs: one list
\* ------------------------------------------------------------------------

\* How the content of a list item is written: bare text, text in the <p> the
\* editor wraps it in, styled text in <p>, and the letter U+0130 in <p>
ItemKinds == {"plain", "wrapped", "styled", "dotted"}

\* The inner markup of a <li> of each kind
ItemInner(kind) ==
    IF kind = "plain" THEN <<"a">>
    ELSE IF kind = "wrapped" THEN El(T_p, <<"a">>)
    ELSE IF kind = "styled" THEN El(T_p, <<"a", " ">> \o El(T_strong, <<"b">>))
    ELSE El(T_p, <<"U+0130">>)

MaxItems == 3

\* A document that is one list: a <ul> or <ol> with a <li> per item kind
ListDoc(ordered, kinds) == [family |-> "list", ordered |-> ordered, kinds |-> kinds]

ListDocMarkup(d) ==
    El(IF d.ordered THEN T_ol ELSE T_ul,
       Flatten([i \in 1..Len(d.kinds) |-> El(T_li, ItemInner(d.kinds[i]))]))

InitList ==
    \E ordered \in BOOLEAN, kinds \in {<<>>} \cup SeqsUpTo(ItemKinds, MaxItems), f \in Formats :
        Call(ListDoc(ordered, kinds), Txt_Report, ListDocMarkup(ListDoc(ordered, kinds)), f)

SpecList == InitList /\ [][Next]_vars

\* ------------------------------------------------------------------------
\* Inputs: one table
\* ------------------------------------------------------------------------

MaxRows == 2

MaxCells == 2

\* How a table is written: <td> cells of bare text; rows inside <tbody> with the
\* first row of <th> cells and every text in the <p> the editor wraps it in;
\* the same with the letter U+0130 as the text
TableStyles == {"plain", "tbody", "dotted"}

\* The text of cell j of row i: the two ordinals
CellText(i, j) == <<Digits[i + 1], Digits[j + 1]>>

\* The markup of cell j of row i
CellMarkup(style, i, j) ==
    IF style = "plain" THEN El(T_td, CellText(i, j))
    ELSE El(IF i = 1 THEN T_th ELSE T_td,
            El(T_p, IF style = "dotted" THEN <<"U+0130">> ELSE CellText(i, j)))

\* A document that is one table: counts[i] is the number of cells of row i
TableDoc(style, counts) == [family |-> "table", style |-> style, counts |-> counts]

TableRowsMarkup(d) ==
    Flatten([i \in 1..Len(d.counts) |->
                El(T_tr, Flatten([j \in 1..d.counts[i] |-> CellMarkup(d.style, i, j)]))])

TableDocMarkup(d) ==
    El(T_table, IF d.style = "plain" THEN TableRowsMarkup(d) ELSE El(T_tbody, TableRowsMarkup(d)))

InitTable ==
    \E style \in TableStyles, counts \in {<<>>} \cup SeqsUpTo(0..MaxCells, MaxRows),
       f \in Formats :
        Call(TableDoc(style, counts), Txt_Report, TableDocMarkup(TableDoc(style, counts)), f)

SpecTable == InitTable /\ [][Next]_vars

\* ------------------------------------------------------------------------
\* Inputs: a title of many lines over a few blocks, enough to fill a page
\* ------------------------------------------------------------------------

\* The most lines of a title: at 20 pt a line takes 10.58 mm of the 247 mm
\* between the margins, so the 24th line is the first with no room left
MaxTitleLines == 24

\* The titles have MaxTitleLines - TitleSpread .. MaxTitleLines lines
TitleSpread == 3

MaxPageBlocks == 2

\* A title of n lines, each the letter a
TitleOfLines(n) == Flatten([i \in 1..n |-> IF i = 1 THEN <<"a">> ELSE <<"\n", "a">>])

\* Blocks of every line height of the page renderer: 11 pt, 18 pt, 9 pt (three
\* lines of code), the list indent, a rule with no text, 10 pt rows
PageBlocks ==
    {Block(T_p, El(T_p, Txt_hello)),
     Block(<<"h", "1">>, El(<<"h", "1">>, Txt_Title)),
     Block(T_pre, El(T_pre, El(T_code, <<"c", "\n", "d", "\n", "e">>))),
     Block(T_ul, El(T_ul, El(T_li, El(T_p, <<"a">>)) \o El(T_li, El(T_p, <<"b">>)))),
     Block(T_hr, <<"<", "h", "r", ">">>),
     Block(T_table, TwoRowTable)}

\* A document of page blocks under a title of `lines` lines
PageDoc(lines, blocks) == [family |-> "pages", lines |-> lines, blocks |-> blocks]

InitPages ==
    \E n \in (MaxTitleLines - TitleSpread)..MaxTitleLines,
       blocks \in {<<>>} \cup SeqsUpTo(PageBlocks, MaxPageBlocks), f \in Formats :
        Call(PageDoc(n, blocks), TitleOfLines(n), BlockDocMarkup(PageDoc(n, blocks)), f)

SpecPages == InitPages /\ [][Next]_vars

\* ------------------------------------------------------------------------
\* Concurrent export calls: every call runs as its own blocking task
\* (spawn_blocking), interleaved with the others at the steps of the model.
\* Here every variable holds one value per call.
\* ------------------------------------------------------------------------

NumCalls == 2

Calls == 1..NumCalls

\* One PdfWriter for all calls: that of the first call
WriterOfFirstCall(c) == 1

\* The PdfWriter that call c draws with: the one it created itself
\* (`let mut w = PdfWriter::new(title)?`)
WriterOf(c) == c

\* The arguments of the calls: a title and markup of one block, one of them
\* with the letter U+0130 in a quote, or no markup
CallArguments ==
    {[title |-> t, html |-> h, format |-> f] :
        t \in {Txt_Report}, f \in Formats,
        h \in {<<>>, El(T_p, Txt_hello) \o El(T_pre, El(T_code, <<"c", "\n", "d">>)),
               El(T_blockquote, El(T_p, <<"U+0130">>))}}

\* The calls that were made: their arguments, in the order of their numbers
ConcurrentDoc(args) == [family |-> "concurrent", args |-> args]

InitConcurrent ==
    \E args \in [Calls -> CallArguments] :
        /\ doc = ConcurrentDoc(args)
        /\ title = [c \in Calls |-> args[c].title]
        /\ html = [c \in Calls |-> args[c].html]
        /\ format = [c \in Calls |-> args[c].format]
        /\ pc = [c \in Calls |-> "parse"]
        /\ chars = [c \in Calls |-> trim(args[c].html)]
        /\ pos = [c \in Calls |-> 0]
        /\ nodes = [c \in Calls |-> <<>>]
        /\ docx = [c \in Calls |-> <<>>]
        /\ writer = [c \in Calls |-> NewWriter]
        /\ node_index = [c \in Calls |-> 1]
        /\ result = [c \in Calls |-> "none"]
        /\ library = [c \in Calls |-> "ok"]
        /\ NoApp

\* The outcome of one pass of the outer loop of parse_html in call c
ParseOutcome(c, s) ==
    IF s.ok
    THEN /\ pos' = [pos EXCEPT ![c] = s.pos]
         /\ nodes' = [nodes EXCEPT ![c] = @ \o s.nodes]
         /\ UNCHANGED <<pc, result>>
    ELSE /\ pc' = [pc EXCEPT ![c] = "done"]
         /\ result' = [result EXCEPT ![c] = "task_failed"]
         /\ UNCHANGED <<pos, nodes>>

\* One pass of the outer loop of parse_html in call c
CallParseStep(c) ==
    /\ pc[c] = "parse"
    /\ pos[c] < Len(chars[c])
    /\ ParseOutcome(c, parse_html_step(chars[c], pos[c]))
    /\ UNCHANGED <<doc, title, html, format, chars, docx, writer, node_index, library, app_state>>

\* parse_html returns in call c; build_docx adds every element and packs
CallBuildDocx(c) ==
    /\ pc[c] = "parse"
    /\ pos[c] >= Len(chars[c])
    /\ format[c] = "docx"
    /\ docx' = [docx EXCEPT ![c] = build_docx(title[c], nodes[c])]
    /\ pc' = [pc EXCEPT ![c] = "done"]
    /\ result' = [result EXCEPT ![c] = pack_result(library[c])]
    /\ UNCHANGED <<doc, title, html, format, chars, pos, nodes, writer, node_index, library, app_state>>

\* parse_html returns in call c; build_pdf creates the writer and renders the title
CallPdfTitle(c) ==
    /\ pc[c] = "parse"
    /\ pos[c] >= Len(chars[c])
    /\ format[c] = "pdf"
    /\ IF new_writer_result(library[c]) = "ok"
       THEN /\ writer' = [writer EXCEPT ![WriterOf(c)] = pdf_title(NewWriter, title[c])]
            /\ pc' = [pc EXCEPT ![c] = "pdf_nodes"]
            /\ UNCHANGED result
       ELSE /\ pc' = [pc EXCEPT ![c] = "done"]
            /\ result' = [result EXCEPT ![c] = new_writer_result(library[c])]
            /\ UNCHANGED writer
    /\ UNCHANGED <<doc, title, html, format, chars, pos, nodes, docx, node_index, library, app_state>>

\* One pass of `for node in &nodes` of build_pdf in call c
CallPdfNode(c) ==
    /\ pc[c] = "pdf_nodes"
    /\ node_index[c] <= Len(nodes[c])
    /\ writer' = [writer EXCEPT ![WriterOf(c)] =
                      pdf_node(writer[WriterOf(c)], nodes[c][node_index[c]])]
    /\ node_index' = [node_index EXCEPT ![c] = @ + 1]
    /\ UNCHANGED <<doc, title, html, format, pc, chars, pos, nodes, docx, result, library, app_state>>

\* w.finish() in call c
CallPdfFinish(c) ==
    /\ pc[c] = "pdf_nodes"
    /\ node_index[c] > Len(nodes[c])
    /\ pc' = [pc EXCEPT ![c] = "done"]
    /\ result' = [result EXCEPT ![c] = finish_result(library[c])]
    /\ UNCHANGED <<doc, title, html, format, chars, pos, nodes, docx, writer, node_index,
                   library, app_state>>

NextConcurrent ==
    \E c \in Calls :
        CallParseStep(c) \/ CallBuildDocx(c) \/ CallPdfTitle(c) \/ CallPdfNode(c)
            \/ CallPdfFinish(c)

SpecConcurrent == InitConcurrent /\ [][NextConcurrent]_vars

\* ------------------------------------------------------------------------
\* Inputs: calls in which a call into docx-rs or printpdf may return Err
\* ------------------------------------------------------------------------

MaxOutcomeBlocks == 2

\* What may fail in a call: nothing, one of the five add_builtin_font calls of
\* PdfWriter::new, pack of build_docx, save or into_inner of PdfWriter::finish
LibraryOutcomes ==
    {"ok", "pack", "save", "into_inner"} \cup {FontErrors[i].font : i \in 1..Len(FontErrors)}

\* A paragraph, a table, and a quote with the letter U+0130 (on which
\* strip_tags_simple panics)
OutcomeBlocks ==
    {Block(T_p, El(T_p, Txt_hello)),
     Block(T_table, TwoRowTable),
     Block(T_blockquote, El(T_blockquote, El(T_p, <<"U+0130">>)))}

OutcomeDoc(blocks, lib) == [family |-> "outcomes", blocks |-> blocks, library |-> lib]

InitOutcomes ==
    \E blocks \in {<<>>} \cup SeqsUpTo(OutcomeBlocks, MaxOutcomeBlocks), f \in Formats,
       lib \in LibraryOutcomes :
        CallUnder(OutcomeDoc(blocks, lib), Txt_Report,
                  BlockDocMarkup(OutcomeDoc(blocks, lib)), f, lib)

SpecOutcomes == InitOutcomes /\ [][Next]_vars

\* ------------------------------------------------------------------------
\* Inputs: image blocks
\* ------------------------------------------------------------------------

MaxImages == 2

\* Where an image comes from: a data URI of a PNG or a JPEG, a data URI of
\* another type, or a web address
ImageSources == {"png", "jpeg", "gif", "http"}

\* The base64 text of a data URI: the bytes 0 0 0, the byte 0 padded, a text
\* one character short, a text with a character outside the alphabet
ImagePayloads == {"whole", "padded", "short", "foreign"}

PayloadText(payload) ==
    IF payload = "whole" THEN <<"A", "A", "A", "A">>
    ELSE IF payload = "padded" THEN <<"A", "A", "=", "=">>
    ELSE IF payload = "short" THEN <<"A", "A", "A">>
    ELSE <<"A", "A", "*", "A">>

\* An image of the editor: its source, its payload (data URIs) and its alt text
ImageOf(source, payload, alt) == [source |-> source, payload |-> payload, alt |-> alt]

\* The src attribute of an image
ImageSrc(img) ==
    IF img.source = "png" THEN DataPng \o PayloadText(img.payload)
    ELSE IF img.source = "jpeg" THEN DataJpeg \o PayloadText(img.payload)
    ELSE IF img.source = "gif"
    THEN <<"d", "a", "t", "a", ":", "i", "m", "a", "g", "e", "/", "g", "i", "f", ";",
           "b", "a", "s", "e", "6", "4", ",">> \o PayloadText(img.payload)
    ELSE <<"h", "t", "t", "p", ":", "/", "/", "x", "/", "a", ".", "p", "n", "g">>

\* <img src="..." alt="...">
ImageMarkup(img) ==
    <<"<", "i", "m", "g", " ", "s", "r", "c", "=", "\"">> \o ImageSrc(img)
        \o <<"\"", " ", "a", "l", "t", "=", "\"">> \o img.alt \o <<"\"", ">">>

\* PNG data URIs of every payload with and without alt text; a JPEG, another
\* type and a web address with alt text
Images ==
    {ImageOf("png", p, a) : p \in ImagePayloads, a \in {<<>>, <<"a">>}}
        \cup {ImageOf(s, "whole", <<"a">>) : s \in {"jpeg", "gif", "http"}}

\* A document that is a sequence of images
ImageDoc(images) == [family |-> "images", images |-> images]

ImageDocMarkup(d) == Flatten([i \in 1..Len(d.images) |-> ImageMarkup(d.images[i])])

InitImages ==
    \E images \in SeqsUpTo(Images, MaxImages), f \in Formats :
        Call(ImageDoc(images), Txt_Report, ImageDocMarkup(ImageDoc(images)), f)

SpecImages == InitImages /\ [][Next]_vars

\* ------------------------------------------------------------------------
\* Inputs: markup with no blocks, under titles of one to MaxTitleLines lines
\* ------------------------------------------------------------------------

\* Markup that is empty or only whitespace, and markup of one paragraph with
\* whitespace around it
BlankMarkups == {<<>>, <<" ">>, <<"\n", " ", "\t">>, <<" ", " ", "\n">>}

PaddedMarkups == {<<" ">> \o El(T_p, Txt_hello) \o <<"\n">>, El(T_p, <<" ">>)}

\* A document of the given markup under a title of `lines` lines
BlankDoc(lines, markup) ==
    [family |-> "blank", lines |-> lines, blank |-> markup \in BlankMarkups]

InitBlank ==
    \E n \in 1..MaxTitleLines, markup \in BlankMarkups \cup PaddedMarkups, f \in Formats :
        Call(BlankDoc(n, markup), TitleOfLines(n), markup, f)

SpecBlank == InitBlank /\ [][Next]_vars

\* ------------------------------------------------------------------------
\* Inputs: titles of a few words, short and long, for the line wrapping of the
\* page renderer.  At 20 pt a character is estimated at 3.67 mm, so a line of
\* 160 mm takes 43 characters: two words of 21 fit on a line, words of 21 and
\* 22 do not, and a word of 44 is wider than a line.
\* ------------------------------------------------------------------------

MaxWords == 3

WordLengths == {1, 21, 22, 44}

\* What stands between two words: a space, a newline, an empty line
WordGaps == {"space", "newline", "empty_line"}

GapText(gap) ==
    IF gap = "space" THEN <<" ">>
    ELSE IF gap = "newline" THEN <<"\n">>
    ELSE <<"\n", "\n">>

\* Word i of a text: its letter is the i-th of the alphabet
WordOf(i, len) == [j \in 1..len |-> LowerAscii[i]]

\* The text of the words with the gaps between them; a padded text has a space
\* before its first word and a space and a newline after its last
WrapText(lengths, gaps, padded) ==
    (IF padded THEN <<" ">> ELSE <<>>)
        \o Flatten([i \in 1..Len(lengths) |->
                       (IF i > 1 THEN GapText(gaps[i - 1]) ELSE <<>>) \o WordOf(i, lengths[i])])
        \o (IF padded THEN <<" ", "\n">> ELSE <<>>)

\* A document of one short paragraph under a title of the given words
WrapDoc(lengths, gaps, padded) ==
    [family |-> "wrap", lengths |-> lengths, gaps |-> gaps, padded |-> padded]

InitWrap ==
    \E n \in 0..MaxWords, padded \in BOOLEAN, f \in Formats :
        \E lengths \in [1..n -> WordLengths], gaps \in [1..(n - 1) -> WordGaps] :
            Call(WrapDoc(lengths, gaps, padded), WrapText(lengths, gaps, padded),
                 El(T_p, <<"a">>), f)

SpecWrap == InitWrap /\ [][Next]_vars

\* ------------------------------------------------------------------------
\* Inputs: one block of a few inline runs of different styles
\* ------------------------------------------------------------------------

MaxRuns == 2

\* How a run is styled: plain text, bold, italic, bold italic, code, or the
\* line break <br>
RunStyles == {"plain", "bold", "italic", "bold_italic", "code", "break"}

\* The blocks the runs are put in: a paragraph, a level-1 heading, a
\* blockquote, the item of a bullet list, and a code block, where every run is
\* a source line (a break is an empty line)
RunBlocks == {"paragraph", "heading", "quote", "item", "code"}

\* The markup of run i: its letter in the tags of its style
RunMarkup(style, i) ==
    IF style = "plain" THEN <<LowerAscii[i]>>
    ELSE IF style = "bold" THEN El(T_strong, <<LowerAscii[i]>>)
    ELSE IF style = "italic" THEN El(T_em, <<LowerAscii[i]>>)
    ELSE IF style = "bold_italic" THEN El(T_strong, El(T_em, <<LowerAscii[i]>>))
    ELSE IF style = "code" THEN El(T_code, <<LowerAscii[i]>>)
    ELSE <<"<", "b", "r", ">">>

\* Source line i of a code block
CodeLine(style, i) == IF style = "break" THEN <<>> ELSE <<LowerAscii[i]>>

RunsDoc(block, styles) == [family |-> "runs", block |-> block, styles |-> styles]

RunsMarkup(d) ==
    IF d.block = "code"
    THEN El(T_pre, El(T_code,
             Flatten([i \in 1..Len(d.styles) |->
                         (IF i > 1 THEN <<"\n">> ELSE <<>>) \o CodeLine(d.styles[i], i)])))
    ELSE LET inner == Flatten([i \in 1..Len(d.styles) |-> RunMarkup(d.styles[i], i)])
         IN  IF d.block = "paragraph" THEN El(T_p, inner)
             ELSE IF d.block = "heading" THEN El(<<"h", "1">>, inner)
             ELSE IF d.block = "quote" THEN El(T_blockquote, inner)
             ELSE El(T_ul, El(T_li, inner))

InitRuns ==
    \E block \in RunBlocks, n \in 0..MaxRuns, f \in Formats :
        \E styles \in [1..n -> IF block = "code" THEN {"plain", "break"} ELSE RunStyles] :
            Call(RunsDoc(block, styles), Txt_Report, RunsMarkup(RunsDoc(block, styles)), f)

SpecRuns == InitRuns /\ [][Next]_vars

\* ------------------------------------------------------------------------
\* Inputs: blocks inside wrapper elements, with blocks before and after
\* ------------------------------------------------------------------------

MaxWrapped == 2

\* The blocks put inside and around the wrappers
WrappedBlocks ==
    {Block(T_p, El(T_p, Txt_Hello_ \o El(T_strong, Txt_world))),
     Block(<<"h", "1">>, El(<<"h", "1">>, Txt_Title)),
     Block(T_ul, El(T_ul, El(T_li, El(T_p, <<"a">>)) \o El(T_li, <<"b">>))),
     Block(T_blockquote, El(T_blockquote, El(T_p, <<"U+0130">>))),
     Block(T_custom, El(T_custom, <<"a">>))}

\* The wrappers around the blocks, outermost first: each wrapper tag alone,
\* and a <div> in a <div>
Wrappings == {<<w>> : w \in WrapperTags} \cup {<<T_div, T_div>>}

RECURSIVE Wrapped(_, _)
\* The markup inside the wrappers
Wrapped(wrappers, inner) ==
    IF wrappers = <<>> THEN inner
    ELSE El(Head(wrappers), Wrapped(Tail(wrappers), inner))

WrapperDoc(before, wrappers, blocks, after) ==
    [family |-> "wrapper", before |-> before, wrappers |-> wrappers, blocks |-> blocks,
     after |-> after]

\* The markup of the document, and the markup of its blocks without wrappers
WrapperDocMarkup(d) ==
    BlockDocMarkup(BlockDoc(d.before))
        \o Wrapped(d.wrappers, BlockDocMarkup(BlockDoc(d.blocks)))
        \o BlockDocMarkup(BlockDoc(d.after))

UnwrappedMarkup(d) == BlockDocMarkup(BlockDoc(d.before \o d.blocks \o d.after))

WrapperDocs ==
    {WrapperDoc(before, wrappers, blocks, after) :
        before \in {<<>>} \cup {<<b>> : b \in WrappedBlocks},
        wrappers \in Wrappings,
        blocks \in {<<>>} \cup SeqsUpTo(WrappedBlocks, MaxWrapped),
        after \in {<<>>, <<Block(T_p, El(T_p, <<"z">>))>>}}

\* The page renderer is run on the documents without blocks around the wrapper
InitWrapper ==
    \E d \in WrapperDocs, f \in Formats :
        /\ f = "pdf" => d.before = <<>> /\ d.after = <<>>
        /\ Call(d, Txt_Report, WrapperDocMarkup(d), f)

SpecWrapper == InitWrapper /\ [][Next]_vars

\* ------------------------------------------------------------------------
\* Inputs: a paragraph of text made of entities and pieces of entities
\* ------------------------------------------------------------------------

MaxPieces == 2

\* The pieces of the text: entities of the table, the tail of one, a letter
TextPieces ==
    {<<"&", "a", "m", "p", ";">>, <<"&", "l", "t", ";">>, <<"&", "g", "t", ";">>,
     <<"&", "#", "3", "9", ";">>, <<"&", "m", "d", "a", "s", "h", ";">>,
     <<"l", "t", ";">>, <<"x">>}

EntityDoc(pieces) == [family |-> "entities", pieces |-> pieces]

\* The text of the paragraph as it stands in the markup
EntityDocText(d) == Flatten(d.pieces)

InitEntities ==
    \E pieces \in SeqsUpTo(TextPieces, MaxPieces), f \in Formats :
        Call(EntityDoc(pieces), Txt_Report, El(T_p, EntityDocText(EntityDoc(pieces))), f)

SpecEntities == InitEntities /\ [][Next]_vars

\* ------------------------------------------------------------------------
\* Inputs: paragraphs and closing tags that close nothing
\* ------------------------------------------------------------------------

MaxStray == 2

\* </tag>
Closing(tag) == <<"<", "/">> \o tag \o <<">">>

\* A piece of a document: where it stands, its markup, and the text it holds
Piece(place, markup, text) == [place |-> place, markup |-> markup, text |-> text]

\* A paragraph, paragraphs with a closing tag that closes nothing in their
\* inline markup, and closing tags that close nothing between the blocks
StrayPieces ==
    {Piece("block", El(T_p, <<"a">>), <<"a">>),
     Piece("inline", El(T_p, <<"b">> \o Closing(T_strong) \o <<"c">>), <<"b", "c">>),
     Piece("inline", El(T_p, Closing(T_em) \o <<"d">>), <<"d">>),
     Piece("top", Closing(T_p), <<>>),
     Piece("top", Closing(T_div), <<>>)}

StrayDoc(pieces) == [family |-> "stray", pieces |-> pieces]

StrayDocMarkup(d) == Flatten([i \in 1..Len(d.pieces) |-> d.pieces[i].markup])

InitStray ==
    \E pieces \in SeqsUpTo(StrayPieces, MaxStray), f \in Formats :
        Call(StrayDoc(pieces), Txt_Report, StrayDocMarkup(StrayDoc(pieces)), f)

SpecStray == InitStray /\ [][Next]_vars

\* ------------------------------------------------------------------------
\* Inputs: a list whose items hold <p> wrappers and other elements
\* ------------------------------------------------------------------------

MaxStripItems == 2

\* <p class="c">
AttributedP == <<"<", "p", " ", "c", "l", "a", "s", "s", "=", "\"", "c", "\"", ">">>

\* The inner markup of a <li> and the same markup without its <p> and </p>
\* tags: bare text, text in <p>, text in <p> with an attribute, text in <pre>,
\* and a <p> followed by a <pre>
StripItem(inner, without_p) == [inner |-> inner, without_p |-> without_p]

StripItems ==
    {StripItem(<<"a">>, <<"a">>),
     StripItem(El(T_p, <<"a">>), <<"a">>),
     StripItem(AttributedP \o <<"a">> \o Closing(T_p), <<"a">>),
     StripItem(El(T_pre, <<"x">>), El(T_pre, <<"x">>)),
     StripItem(El(T_p, <<"a">>) \o El(T_pre, <<"x">>), <<"a">> \o El(T_pre, <<"x">>))}

StripDoc(items) == [family |-> "strip", items |-> items]

StripDocMarkup(d) ==
    El(T_ul, Flatten([i \in 1..Len(d.items) |-> El(T_li, d.items[i].inner)]))

InitStrip ==
    \E items \in SeqsUpTo(StripItems, MaxStripItems), f \in Formats :
        Call(StripDoc(items), Txt_Report, StripDocMarkup(StripDoc(items)), f)

SpecStrip == InitStrip /\ [][Next]_vars

\* ------------------------------------------------------------------------
\* Inputs: one run with any of the four style flags, in every block that
\* carries runs
\* ------------------------------------------------------------------------

StyleFlags == {"bold", "italic", "underline", "code"}

\* The blocks that carry runs
StyledBlocks == {"heading", "paragraph", "item", "quote", "cell"}

\* The letter x inside the inline element of every flag of the set
StyledMarkup(flags) ==
    LET in_code == IF "code" \in flags THEN El(T_code, <<"x">>) ELSE <<"x">>
        in_u == IF "underline" \in flags THEN El(T_u, in_code) ELSE in_code
        in_em == IF "italic" \in flags THEN El(T_em, in_u) ELSE in_u
    IN  IF "bold" \in flags THEN El(T_strong, in_em) ELSE in_em

StyledDoc(block, flags) == [family |-> "styled", block |-> block, flags |-> flags]

StyledDocMarkup(d) ==
    IF d.block = "heading" THEN El(<<"h", "2">>, StyledMarkup(d.flags))
    ELSE IF d.block = "paragraph" THEN El(T_p, StyledMarkup(d.flags))
    ELSE IF d.block = "item" THEN El(T_ol, El(T_li, StyledMarkup(d.flags)))
    ELSE IF d.block = "quote" THEN El(T_blockquote, StyledMarkup(d.flags))
    ELSE El(T_table, El(T_tr, El(T_td, StyledMarkup(d.flags))))

InitStyled ==
    \E block \in StyledBlocks, flags \in SUBSET StyleFlags, f \in Formats :
        Call(StyledDoc(block, flags), Txt_Report, StyledDocMarkup(StyledDoc(block, flags)), f)

SpecStyled == InitStyled /\ [][Next]_vars

\* ------------------------------------------------------------------------
\* Inputs: a code block of a few source lines, indented or not
\* ------------------------------------------------------------------------

MaxCodeLines == 2

\* The source lines: a word, a word indented by one and by two spaces, an
\* entity, and two words two spaces apart
SourceLines ==
    {<<"c">>, <<" ", "d">>, <<" ", " ", "e">>, <<"&", "l", "t", ";">>, <<"f", " ", " ", "g">>}

\* The lines without leading whitespace and with single spaces only
PackedLines == {<<"c">>, <<"&", "l", "t", ";">>}

CodeDoc(lines) == [family |-> "code", lines |-> lines]

\* <pre><code>line \n line ...</code></pre>
CodeDocMarkup(d) ==
    El(T_pre, El(T_code,
        Flatten([i \in 1..Len(d.lines) |->
                    (IF i > 1 THEN <<"\n">> ELSE <<>>) \o d.lines[i]])))

InitCode ==
    \E lines \in SeqsUpTo(SourceLines, MaxCodeLines), f \in Formats :
        Call(CodeDoc(lines), Txt_Report, CodeDocMarkup(CodeDoc(lines)), f)

SpecCode == InitCode /\ [][Next]_vars

\* ------------------------------------------------------------------------
\* Inputs: a paragraph of two runs of one word each, as long together as a
\* line of 160 mm takes at 11 pt: 79 characters at the ratio 0.52, 68 at 0.60
\* ------------------------------------------------------------------------

\* The first word: 40 characters
FirstWord == WordOf(1, 40)

\* With the first word and the space: 68, 71, 79 and 80 characters
SecondWordLengths == {27, 30, 38, 39}

WordStyles == {"plain", "bold", "code"}

\* A word in the element of its style
StyledWord(style, word) ==
    IF style = "bold" THEN El(T_strong, word)
    ELSE IF style = "code" THEN El(T_code, word)
    ELSE word

RatioDoc(first, second, len) ==
    [family |-> "ratio", first |-> first, second |-> second, len |-> len]

\* <p> the first word and a space in the first style, the second word in the
\* second </p>
RatioDocMarkup(d) ==
    El(T_p, StyledWord(d.first, FirstWord \o <<" ">>)
                \o StyledWord(d.second, WordOf(2, d.len)))

InitRatio ==
    \E first \in WordStyles, second \in WordStyles, len \in SecondWordLengths, f \in Formats :
        Call(RatioDoc(first, second, len), Txt_Report,
             RatioDocMarkup(RatioDoc(first, second, len)), f)

SpecRatio == InitRatio /\ [][Next]_vars

\* ------------------------------------------------------------------------
\* Inputs: a blockquote at the bottom of the first page, under a title that
\* fills the page and after nothing or one more block
\* ------------------------------------------------------------------------

\* The blockquotes: one run, and two runs
QuoteBlocks ==
    {Block(T_blockquote, El(T_blockquote, El(T_p, <<"q">>))),
     Block(T_blockquote, El(T_blockquote, El(T_p, <<"q">> \o El(T_strong, <<"r">>))))}

\* What stands before the blockquote: nothing, a paragraph, a heading, a rule
BeforeQuote ==
    {<<>>, <<Block(T_p, El(T_p, Txt_hello))>>, <<Block(<<"h", "1">>, El(<<"h", "1">>, Txt_Title))>>,
     <<Block(T_hr, <<"<", "h", "r", ">">>)>>}

QuoteDoc(lines, blocks) == [family |-> "quote", lines |-> lines, blocks |-> blocks]

InitQuote ==
    \E n \in (MaxTitleLines - TitleSpread)..MaxTitleLines,
       before \in BeforeQuote, quote \in QuoteBlocks, f \in Formats :
        Call(QuoteDoc(n, before \o <<quote>>), TitleOfLines(n),
             BlockDocMarkup(QuoteDoc(n, before \o <<quote>>)), f)

SpecQuote == InitQuote /\ [][Next]_vars


\* ------------------------------------------------------------------------
\* The background scheduler (scheduler.rs) and the schedule commands
\* (commands/scheduler.rs) over the database behind db::get_db.  get_db hands
\* out the guard of one Mutex<Connection>: a command holds it for its whole
\* body, check_and_publish takes and drops it block by block, so a command
\* runs between any two blocks of a tick and during the await of a publish.
\* ------------------------------------------------------------------------

\* How many posts and documents, commands of the user, and ticks of the
\* scheduler a run has
MaxPosts == 2
MaxCommands == 2
MaxTicks == 2

PostIds == {<<"p", i>> : i \in 1..MaxPosts}
DocIds == {"d1", "d2"}

\* scheduled_at against the `now` of a tick: not after it, or after it
ScheduledAts == {"past", "future"}

\* The platforms of a post: one check_and_publish has a service for, one it
\* has none for
Platforms == {"beehiiv", "other"}

\* No export call is running
NoExport ==
    /\ library = "ok"
    /\ doc = <<>>
    /\ title = <<>>
    /\ html = <<>>
    /\ format = "docx"
    /\ pc = "idle"
    /\ chars = <<>>
    /\ pos = 0
    /\ nodes = <<>>
    /\ docx = <<>>
    /\ writer = NewWriter
    /\ node_index = 1
    /\ result = "none"

\* A row of scheduled_posts as schedule_post inserts it
PendingPost(document_id, platform, scheduled_at) ==
    [document_id |-> document_id, platform |-> platform, scheduled_at |-> scheduled_at,
     status |-> "pending"]

\* A row of documents
Document(status, html_content, version) ==
    [status |-> status, html_content |-> html_content, version |-> version]

\* INSERT INTO a table, DELETE FROM it WHERE id = ..
InsertRow(table, id, row) == [j \in DOMAIN table \cup {id} |-> IF j = id THEN row ELSE table[j]]

DeleteRow(table, id) == [j \in DOMAIN table \ {id} |-> table[j]]

\* UPDATE scheduled_posts SET status = .. WHERE id = ..: no row, nothing done
SetPostStatus(posts, id, status) ==
    IF id \notin DOMAIN posts THEN posts ELSE [posts EXCEPT ![id].status = status]

\* UPDATE documents SET status = .. WHERE id = ..
SetDocumentStatus(docs, id, status) ==
    IF id \notin DOMAIN docs THEN docs ELSE [docs EXCEPT ![id].status = status]

\* The commands of the user among the events
CommandOps == {"schedule_post", "cancel_scheduled_post", "reschedule_post", "publish_scheduled_now"}

CommandsDone == Cardinality({k \in 1..Len(events) : events[k].op \in CommandOps})

Event(op, id) == [op |-> op, id |-> id]

\* The orders of a set of posts: ORDER BY scheduled_at ASC over rows that are
\* all "past"
RECURSIVE OrdersOf(_)
OrdersOf(ids) ==
    IF ids = {} THEN {<<>>}
    ELSE UNION {{<<id>> \o rest : rest \in OrdersOf(ids \ {id})} : id \in ids}

\* Lines 35-63 of check_and_publish: the due posts
CheckDue ==
    /\ tick.pc \in {"idle", "returned"}
    /\ tick.count < MaxTicks
    /\ \E due_posts \in OrdersOf({id \in DOMAIN scheduled_posts :
                                     /\ scheduled_posts[id].scheduled_at = "past"
                                     /\ scheduled_posts[id].status = "pending"}) :
           tick' = [pc |-> IF due_posts = <<>> THEN "returned" ELSE "mark",
                    count |-> tick.count + 1,
                    due_posts |-> [k \in 1..Len(due_posts) |->
                                      [post_id |-> due_posts[k],
                                       document_id |-> scheduled_posts[due_posts[k]].document_id,
                                       platform |-> scheduled_posts[due_posts[k]].platform]],
                    index |-> 1,
                    result |-> IF due_posts = <<>> THEN "Ok" ELSE "none"]
    /\ UNCHANGED <<export_state, documents, document_versions, scheduled_posts, events>>

\* The post of the loop
ThePost == tick.due_posts[tick.index]

\* `continue` and the end of the loop body: the next due post, or Ok(())
NextPost ==
    IF tick.index < Len(tick.due_posts)
    THEN [tick EXCEPT !.pc = "mark", !.index = tick.index + 1]
    ELSE [tick EXCEPT !.pc = "returned", !.result = "Ok"]

\* Lines 67-74: mark as publishing
MarkPublishing ==
    /\ tick.pc = "mark"
    /\ scheduled_posts' = SetPostStatus(scheduled_posts, ThePost.post_id, "publishing")
    /\ events' = Append(events, Event("handle", ThePost.post_id))
    /\ tick' = [tick EXCEPT !.pc = "load"]
    /\ UNCHANGED <<export_state, documents, document_versions>>

\* Lines 77-87: load the document content, "" when there is no such document
LoadContent ==
    /\ tick.pc = "load"
    /\ LET html_content == IF ThePost.document_id \notin DOMAIN documents THEN ""
                           ELSE documents[ThePost.document_id].html_content
       IN tick' = [tick EXCEPT !.pc = IF html_content = "" THEN "empty" ELSE "key"]
    /\ UNCHANGED <<export_state, documents, document_versions, scheduled_posts, events>>

\* Lines 88-94: the content is empty
FailEmpty ==
    /\ tick.pc = "empty"
    /\ scheduled_posts' = SetPostStatus(scheduled_posts, ThePost.post_id, "failed")
    /\ tick' = NextPost
    /\ UNCHANGED <<export_state, documents, document_versions, events>>

\* Lines 98-113: the API key of the account from the credential store.  The
\* store (tauri-plugin-store) fails to open, has no key, or has one.
GetApiKey ==
    /\ tick.pc = "key"
    /\ \E store \in {"error", "", "key"} :
           tick' = CASE store = "error" -> [tick EXCEPT !.pc = "returned", !.result = "Err"]
                     [] store = "" -> [tick EXCEPT !.pc = "nokey"]
                     [] OTHER -> [tick EXCEPT !.pc = "publish"]
    /\ UNCHANGED <<export_state, documents, document_versions, scheduled_posts, events>>

\* Lines 114-119: no API key
FailNoKey ==
    /\ tick.pc = "nokey"
    /\ scheduled_posts' = SetPostStatus(scheduled_posts, ThePost.post_id, "failed")
    /\ tick' = NextPost
    /\ UNCHANGED <<export_state, documents, document_versions, events>>

\* Lines 123-148: the call to the platform, which succeeds or fails; no call
\* for a platform without a service
Publish ==
    /\ tick.pc = "publish"
    /\ IF ThePost.platform = "other"
       THEN /\ tick' = [tick EXCEPT !.pc = "err"]
            /\ UNCHANGED events
       ELSE /\ \E r \in {"ok", "err"} : tick' = [tick EXCEPT !.pc = r]
            /\ events' = Append(events, Event("publish", ThePost.post_id))
    /\ UNCHANGED <<export_state, documents, document_versions, scheduled_posts>>

\* Lines 149-174: the call returned Ok(url)
RecordPublished ==
    /\ tick.pc = "ok"
    /\ scheduled_posts' = SetPostStatus(scheduled_posts, ThePost.post_id, "published")
    /\ documents' = SetDocumentStatus(documents, ThePost.document_id, "published")
    /\ events' = IF ThePost.document_id \notin DOMAIN documents THEN events
                 ELSE Append(events, Event("document_published", ThePost.post_id))
    /\ tick' = NextPost
    /\ UNCHANGED <<export_state, document_versions>>

\* Lines 175-192: the call returned Err
RecordFailed ==
    /\ tick.pc = "err"
    /\ scheduled_posts' = SetPostStatus(scheduled_posts, ThePost.post_id, "failed")
    /\ tick' = NextPost
    /\ UNCHANGED <<export_state, documents, document_versions, events>>

\* schedule_post: a post under a new id (a uuid)
SchedulePost ==
    /\ CommandsDone < MaxCommands
    /\ \E id \in PostIds, document_id \in DocIds, platform \in Platforms,
          scheduled_at \in ScheduledAts :
        /\ id \notin DOMAIN scheduled_posts
        /\ \A k \in 1..Len(events) : events[k].id # id
        /\ \A other \in PostIds :
               (other[2] < id[2]) =>
                   (other \in DOMAIN scheduled_posts \/ \E k \in 1..Len(events) : events[k].id = other)
        /\ scheduled_posts' =
               InsertRow(scheduled_posts, id, PendingPost(document_id, platform, scheduled_at))
        /\ documents' = SetDocumentStatus(documents, document_id, "scheduled")
        /\ events' = Append(events, Event("schedule_post", id))
    /\ UNCHANGED <<export_state, document_versions, tick>>

\* cancel_scheduled_post
CancelScheduledPost ==
    /\ CommandsDone < MaxCommands
    /\ \E id \in PostIds :
        /\ scheduled_posts' = DeleteRow(scheduled_posts, id)
        /\ documents' =
               IF /\ id \in DOMAIN scheduled_posts
                  /\ scheduled_posts[id].document_id \in DOMAIN documents
                  /\ documents[scheduled_posts[id].document_id].status = "scheduled"
               THEN SetDocumentStatus(documents, scheduled_posts[id].document_id, "draft")
               ELSE documents
        /\ events' = Append(events, Event("cancel_scheduled_post", id))
    /\ UNCHANGED <<export_state, document_versions, tick>>

\* reschedule_post
ReschedulePost ==
    /\ CommandsDone < MaxCommands
    /\ \E id \in PostIds, new_scheduled_at \in ScheduledAts :
        /\ scheduled_posts' =
               IF id \notin DOMAIN scheduled_posts THEN scheduled_posts
               ELSE [scheduled_posts EXCEPT ![id].scheduled_at = new_scheduled_at,
                                            ![id].status = "pending"]
        /\ events' = Append(events, Event("reschedule_post", id))
    /\ UNCHANGED <<export_state, documents, document_versions, tick>>

\* publish_scheduled_now
PublishScheduledNow ==
    /\ CommandsDone < MaxCommands
    /\ \E id \in PostIds :
        /\ scheduled_posts' =
               IF id \notin DOMAIN scheduled_posts THEN scheduled_posts
               ELSE [scheduled_posts EXCEPT ![id].scheduled_at = "past",
                                            ![id].status = "pending"]
        /\ events' = Append(events, Event("publish_scheduled_now", id))
    /\ UNCHANGED <<export_state, documents, document_versions, tick>>

\* The documents of a run: one with content, one without
TwoDocuments ==
    [d \in DocIds |-> Document("draft", IF d = "d1" THEN "<p>a</p>" ELSE "", 1)]

\* The scheduler is started on a database in which some posts are scheduled
InitScheduler ==
    /\ NoExport
    /\ document_versions = {}
    /\ tick = [pc |-> "idle", count |-> 0]
    /\ events = <<>>
    /\ \E n \in 0..MaxPosts :
       \E posts \in [{<<"p", i>> : i \in 1..n} ->
                        {PendingPost(d, p, s) : d \in DocIds, p \in Platforms, s \in ScheduledAts}] :
        /\ scheduled_posts = posts
        /\ documents =
               [d \in DocIds |->
                   IF \E id \in DOMAIN posts : posts[id].document_id = d
                   THEN [TwoDocuments[d] EXCEPT !.status = "scheduled"]
                   ELSE TwoDocuments[d]]

NextScheduler ==
    \/ CheckDue
    \/ MarkPublishing
    \/ LoadContent
    \/ FailEmpty
    \/ GetApiKey
    \/ FailNoKey
    \/ Publish
    \/ RecordPublished
    \/ RecordFailed
    \/ SchedulePost
    \/ CancelScheduledPost
    \/ ReschedulePost
    \/ PublishScheduledNow

SpecScheduler == InitScheduler /\ [][NextScheduler]_vars

\* ------------------------------------------------------------------------
\* The document commands save_document, auto_save and
\* restore_document_version (commands/export.rs) over the tables documents
\* and document_versions.  Each holds the database lock for its whole body.
\* ------------------------------------------------------------------------

\* `LIMIT 50` of the DELETE in save_document
VERSION_LIMIT == 50

\* How many snapshots a run stores
MaxSnapshots == 52

\* The html_content the user saves, and what auto_save may also write
SavedContent == "<p>a</p>"
AutoSavedContents == {SavedContent, ""}

\* A row of document_versions
Snapshot(document_id, version, html_content) ==
    [document_id |-> document_id, version |-> version, html_content |-> html_content]

\* The rows of document_versions of a document
VersionsOf(rows, document_id) == {r \in rows : r.document_id = document_id}

\* DELETE FROM document_versions WHERE document_id = ?1 AND id NOT IN (SELECT
\* id .. WHERE document_id = ?1 ORDER BY version DESC LIMIT 50)
KeepLastVersions(rows, document_id) ==
    {r \in rows :
        \/ r.document_id # document_id
        \/ Cardinality({q \in VersionsOf(rows, document_id) : q.version > r.version})
               < VERSION_LIMIT}

\* SELECT COALESCE(MAX(version), 0) FROM document_versions WHERE document_id = ?1
MaxVersionOf(rows, document_id) ==
    IF VersionsOf(rows, document_id) = {} THEN 0
    ELSE CHOOSE v \in {r.version : r \in VersionsOf(rows, document_id)} :
             \A r \in VersionsOf(rows, document_id) : r.version <= v

\* The snapshots stored so far: the highest version numbers of the documents
\* together
RECURSIVE SnapshotsStored(_)
SnapshotsStored(ids) ==
    IF ids = {} THEN 0
    ELSE LET id == CHOOSE d \in ids : TRUE
         IN MaxVersionOf(document_versions, id) + SnapshotsStored(ids \ {id})

\* COALESCE((SELECT status FROM documents WHERE id = ?1), 'draft')
StatusOrDraft(id) == IF id \in DOMAIN documents THEN documents[id].status ELSE "draft"

\* save_document
SaveDocument ==
    \E id \in DocIds :
        LET current_version == IF id \in DOMAIN documents THEN documents[id].version ELSE 0
            new_version == current_version + 1
        IN /\ SnapshotsStored(DocIds) < MaxSnapshots
           /\ documents' =
                  InsertRow(documents, id, Document(StatusOrDraft(id), SavedContent, new_version))
           /\ document_versions' =
                  KeepLastVersions(document_versions \cup {Snapshot(id, new_version, SavedContent)},
                                   id)
           /\ UNCHANGED <<export_state, scheduled_posts, tick, events>>

\* auto_save
AutoSave ==
    \E id \in DocIds, html_content \in AutoSavedContents :
        /\ documents' =
               InsertRow(documents, id,
                         Document(StatusOrDraft(id), html_content,
                                  IF id \in DOMAIN documents THEN documents[id].version ELSE 1))
        /\ UNCHANGED <<export_state, document_versions, scheduled_posts, tick, events>>

\* The versions the user asks to restore: the oldest and the newest snapshot
\* of the document, and one the document has no snapshot of
RestoreChoices(document_id) ==
    LET versions == {r.version : r \in VersionsOf(document_versions, document_id)}
    IN {v \in versions : \A u \in versions : v <= u} \cup
       {MaxVersionOf(document_versions, document_id),
        MaxVersionOf(document_versions, document_id) + 1}

\* restore_document_version: Err("Version not found") without such a row
RestoreDocumentVersion ==
    \E document_id \in DocIds : \E version \in RestoreChoices(document_id) :
        IF \E r \in VersionsOf(document_versions, document_id) : r.version = version
        THEN LET row == CHOOSE r \in VersionsOf(document_versions, document_id) :
                            r.version = version
                 new_version == MaxVersionOf(document_versions, document_id) + 1
             IN /\ SnapshotsStored(DocIds) < MaxSnapshots
                /\ documents' =
                       IF document_id \in DOMAIN documents
                       THEN [documents EXCEPT ![document_id].html_content = row.html_content,
                                              ![document_id].version = new_version]
                       ELSE documents
                /\ document_versions' =
                       document_versions \cup {Snapshot(document_id, new_version, row.html_content)}
                /\ UNCHANGED <<export_state, scheduled_posts, tick, events>>
        ELSE UNCHANGED vars

\* An empty database
InitVersions ==
    /\ NoExport
    /\ NoApp

NextVersions ==
    \/ SaveDocument
    \/ AutoSave
    \/ RestoreDocumentVersion

SpecVersions == InitVersions /\ [][NextVersions]_vars
\* ------------------------------------------------------------------------
\* Properties of the parser, stated over the documents above
\* ------------------------------------------------------------------------

\* The characters of s at the indexes in K, in order
SubseqAt(s, K) ==
    [k \in 1..Cardinality(K) |-> s[CHOOSE i \in K : Cardinality({j \in K : j <= i}) = k]]

\* Character i of s is part of a tag: a `<` at or before it is not yet closed
InTag(s, i) == \E j \in 1..i : s[j] = "<" /\ \A k \in j..(i - 1) : s[k] # ">"

\* The markup with all tags stripped
StripAllTags(s) == SubseqAt(s, {i \in 1..Len(s) : ~InTag(s, i)})

\* The entities of the table that are written at index i of t
EntitiesAt(t, i) ==
    {e \in 1..Len(EntityTable) :
        /\ i + Len(EntityTable[e][1]) - 1 <= Len(t)
        /\ SubSeq(t, i, i + Len(EntityTable[e][1]) - 1) = EntityTable[e][1]}

\* Index i of t lies behind the first character of an entity written in t
InsideEntity(t, i) ==
    \E j \in 1..(i - 1) : \E e \in EntitiesAt(t, j) : i < j + Len(EntityTable[e][1])

\* What index i of t decodes to: the glyph of the entity written there, or the
\* character itself
DecodedAt(t, i) ==
    IF EntitiesAt(t, i) = {} THEN <<t[i]>>
    ELSE EntityTable[CHOOSE e \in EntitiesAt(t, i) : TRUE][2]

\* The text with every entity written in it decoded, once
DecodeOnce(t) ==
    Flatten([k \in 1..Cardinality({i \in 1..Len(t) : ~InsideEntity(t, i)}) |->
                DecodedAt(t, SubseqAt([i \in 1..Len(t) |-> i],
                                      {i \in 1..Len(t) : ~InsideEntity(t, i)})[k])])

\* The text without its whitespace
NoWhitespace(s) == SubseqAt(s, {i \in 1..Len(s) : s[i] \notin Whitespace})

\* The texts of a sequence of runs, concatenated
RunsText(runs) == Flatten([i \in 1..Len(runs) |-> runs[i].text])

\* The text of one block of the model
NodeText(n) ==
    IF n.kind \in {"Heading", "Paragraph", "Blockquote"} THEN RunsText(n.children)
    ELSE IF n.kind \in {"UnorderedList", "OrderedList"}
    THEN Flatten([i \in 1..Len(n.items) |-> RunsText(n.items[i])])
    ELSE IF n.kind = "Table"
    THEN Flatten([i \in 1..Len(n.rows) |->
                     Flatten([j \in 1..Len(n.rows[i]) |-> RunsText(n.rows[i][j])])])
    ELSE IF n.kind = "CodeBlock" THEN n.text
    ELSE <<>>

\* The text of the model
ModelText(ns) == Flatten([i \in 1..Len(ns) |-> NodeText(ns[i])])

\* s holds sub as a contiguous part
Contains(s, sub) ==
    \E i \in 1..(Len(s) - Len(sub) + 1) : SubSeq(s, i, i + Len(sub) - 1) = sub

\* The tags of the top-level blocks the parser has an arm for
RecognizedTags ==
    {<<"h", d>> : d \in {"1", "2", "3", "4", "5", "6"}}
        \cup {T_p, T_ul, T_ol, T_blockquote, T_pre, T_hr, T_table, T_img}

\* The document is a sequence of recognized top-level block elements
AllRecognized(d) ==
    d.family = "blocks" /\ \A i \in 1..Len(d.blocks) : d.blocks[i].tag \in RecognizedTags

\* parse_html has returned the model, or the task has failed in it
ParseReturned == pc # "parse" \/ pos >= Len(chars)

\* C1: for well-formed markup of supported tags, the run texts of the model,
\* concatenated, are the markup with its tags stripped and its entities decoded,
\* up to whitespace: parse_html returns, and no text outside tags is lost,
\* duplicated or reordered.
C1_TextPreserved ==
    (AllRecognized(doc) /\ ParseReturned)
        => /\ result # "task_failed"
           /\ NoWhitespace(ModelText(nodes)) = NoWhitespace(DecodeOnce(StripAllTags(html)))

\* The block kind a recognized top-level tag stands for
ExpectedKind(tag) ==
    IF tag = T_p THEN "Paragraph"
    ELSE IF tag = T_ul THEN "UnorderedList"
    ELSE IF tag = T_ol THEN "OrderedList"
    ELSE IF tag = T_blockquote THEN "Blockquote"
    ELSE IF tag = T_pre THEN "CodeBlock"
    ELSE IF tag = T_hr THEN "HorizontalRule"
    ELSE IF tag = T_table THEN "Table"
    ELSE IF tag = T_img THEN "Image"
    ELSE "Heading"

\* The number a decimal digit stands for
DigitValue(c) == CHOOSE n \in 0..9 : Digits[n + 1] = c

\* <h1>Title</h1><p>Hello <strong>world</strong></p>
ExampleMarkup == El(<<"h", "1">>, Txt_Title) \o El(T_p, Txt_Hello_ \o El(T_strong, Txt_world))

\* [Heading{level 1, ["Title"]}, Paragraph{["Hello " plain, "world" bold]}]
ExampleModel ==
    <<[kind |-> "Heading", level |-> 1,
       children |-> <<[text |-> Txt_Title, bold |-> FALSE, italic |-> FALSE,
                       underline |-> FALSE, code |-> FALSE]>>],
      [kind |-> "Paragraph",
       children |-> <<[text |-> Txt_Hello_, bold |-> FALSE, italic |-> FALSE,
                       underline |-> FALSE, code |-> FALSE],
                      [text |-> Txt_world, bold |-> TRUE, italic |-> FALSE,
                       underline |-> FALSE, code |-> FALSE]>>]>>

\* C2: for a sequence of recognized top-level block elements, the model holds
\* exactly one block per element, in the same order; a Heading's level is the
\* digit of its tag, in 1..6; the example markup yields the example model.
C2_OrderPreserved ==
    (AllRecognized(doc) /\ ParseReturned)
        => /\ result # "task_failed"
           /\ Len(nodes) = Len(doc.blocks)
           /\ \A i \in 1..Len(nodes) :
                  /\ nodes[i].kind = ExpectedKind(doc.blocks[i].tag)
                  /\ nodes[i].kind = "Heading"
                         => /\ nodes[i].level = DigitValue(doc.blocks[i].tag[2])
                            /\ nodes[i].level \in 1..6
           /\ html = ExampleMarkup => nodes = ExampleModel

\* The text of the flow document: the runs of its paragraphs and table cells
DocxElementText(e) ==
    IF e.elem = "paragraph" THEN RunsText(e.runs)
    ELSE IF e.elem = "table"
    THEN Flatten([i \in 1..Len(e.rows) |->
                     Flatten([j \in 1..Len(e.rows[i]) |-> RunsText(e.rows[i][j].runs)])])
    ELSE <<>>

DocxText(elements) == Flatten([i \in 1..Len(elements) |-> DocxElementText(elements[i])])

\* The text drawn on the pages, in drawing order
PdfText(w) ==
    Flatten([i \in 1..Len(w.ops) |-> IF w.ops[i].op = "text" THEN w.ops[i].text ELSE <<>>])

\* C3: text wrapped in an unknown tag is preserved: parsing <foo>hello</foo>
\* yields a model whose text contains "hello", and the text appears in the
\* output of both renderers.
C3_UnknownTagTextKept ==
    (html = El(T_foo, Txt_hello) /\ pc = "done")
        => /\ result = "ok"
           /\ Contains(ModelText(nodes), Txt_hello)
           /\ format = "docx" => Contains(DocxText(docx), Txt_hello)
           /\ format = "pdf" => Contains(PdfText(writer), Txt_hello)

\* C4: the parser is total: every pass of the outer loop of parse_html ends,
\* moves the cursor forward and leaves the call running, whatever the input
\* (an unknown tag, an unmatched closing tag, a malformed attribute, an
\* unterminated tag); nothing aborts the traversal.
C4_ParserTotal ==
    [][(pc = "parse" /\ pos < Len(chars)) => (pos' > pos /\ pc' = "parse" /\ result' = "none")]_vars

\* </tag>
CloseTagOf(tag) == <<"<", "/">> \o tag \o <<">">>

\* A closing tag of `tag` is written at position p of chars
ClosesAt(chars_, p, tag) ==
    /\ p + Len(tag) + 3 <= Len(chars_)
    /\ to_lowercase(Slice(chars_, p, p + Len(tag) + 3)) = CloseTagOf(tag)

\* A nested opening of `tag` is written at position p of chars: <tag followed
\* by whitespace, `>` or `/`
OpensAt(chars_, p, tag) ==
    /\ p + Len(tag) + 1 < Len(chars_)
    /\ to_lowercase(Slice(chars_, p, p + Len(tag) + 1)) = <<"<">> \o tag
    /\ At(chars_, p + Len(tag) + 1) \in Whitespace \cup {">", "/"}

\* The closing tags at or after start that balance the opening before start
Balancing(chars_, start, tag) ==
    {p \in start..(Len(chars_) - 1) :
        /\ ClosesAt(chars_, p, tag)
        /\ Cardinality({q \in start..(p - 1) : OpensAt(chars_, q, tag)})
               = Cardinality({q \in start..(p - 1) : ClosesAt(chars_, q, tag)})}

\* The content up to the first balancing closing tag and the position just after
\* it, or the remainder and the end of the input
ExpectedClosing(chars_, start, tag) ==
    IF Balancing(chars_, start, tag) = {}
    THEN [inner |-> Slice(chars_, start, Len(chars_)), end |-> Len(chars_)]
    ELSE [inner |-> Slice(chars_, start, Least(Balancing(chars_, start, tag))),
          end |-> Least(Balancing(chars_, start, tag)) + Len(tag) + 3]

\* C5: read_until_closing always returns a result; called after an opening tag
\* of the input it returns the content up to the first closing tag that balances
\* the opening and the position just after that closing tag, or, without one,
\* the remainder of the input and its end.
C5_ReadUntilClosing ==
    \A q \in 0..(Len(chars) - 1) :
        (At(chars, q) = "<" /\ read_opening_tag(chars, q).some)
            => read_until_closing(chars, read_opening_tag(chars, q).end,
                                  read_opening_tag(chars, q).name)
                   = ExpectedClosing(chars, read_opening_tag(chars, q).end,
                                     read_opening_tag(chars, q).name)

\* The run an inline item stands for: its text, and each flag set exactly when
\* the text lies inside a tag that sets it
ExpectedRun(item) ==
    [text |-> item.text,
     bold |-> \E i \in 1..Len(item.tags) : item.tags[i] \in {T_strong, T_b},
     italic |-> \E i \in 1..Len(item.tags) : item.tags[i] \in {T_em, T_i},
     underline |-> \E i \in 1..Len(item.tags) : item.tags[i] \in {T_u, T_a},
     code |-> \E i \in 1..Len(item.tags) : item.tags[i] = T_code]

\* <p><strong><em>x</em></strong></p>
StrongEmMarkup == El(T_p, El(T_strong, El(T_em, <<"x">>)))

\* C6: inline style flags compose by union: every run of the paragraph has
\* bold, italic, underline, code set exactly when its text lies inside a
\* strong|b, em|i, u|a, code tag; an inner tag clears nothing, span and unknown
\* tags change nothing; <strong><em>x</em></strong> is one run, bold and italic.
C6_FlagsUnion ==
    (doc.family = "inline" /\ ParseReturned)
        => /\ result # "task_failed"
           /\ nodes = <<[kind |-> "Paragraph",
                         children |-> [i \in 1..Len(doc.items) |-> ExpectedRun(doc.items[i])]]>>
           /\ html = StrongEmMarkup
                  => /\ Len(nodes[1].children) = 1
                     /\ nodes[1].children[1].bold /\ nodes[1].children[1].italic

\* A run without style flags
PlainText(text) ==
    [text |-> text, bold |-> FALSE, italic |-> FALSE, underline |-> FALSE, code |-> FALSE]

\* The runs of a list item of each kind: its inner markup without the wrapper
\* <p> and </p>, parsed inline
ExpectedItem(kind) ==
    IF kind \in {"plain", "wrapped"} THEN <<PlainText(<<"a">>)>>
    ELSE IF kind = "styled"
    THEN <<PlainText(<<"a", " ">>), [PlainText(<<"b">>) EXCEPT !.bold = TRUE]>>
    ELSE <<PlainText(<<"U+0130">>)>>

\* C7: a ul or ol with N top-level <li> children parses to one list block with
\* exactly N items in document order, each the inline parse of the li's inner
\* markup with its wrapper <p> and </p> removed.
C7_ListItems ==
    (doc.family = "list" /\ ParseReturned)
        => /\ result # "task_failed"
           /\ nodes = <<[kind |-> IF doc.ordered THEN "OrderedList" ELSE "UnorderedList",
                         items |-> [i \in 1..Len(doc.kinds) |-> ExpectedItem(doc.kinds[i])]]>>

\* The cell the parser is to yield for cell j of row i of a table document
ExpectedCell(d, i, j) ==
    <<PlainText(IF d.style = "dotted" THEN <<"U+0130">> ELSE CellText(i, j))>>

\* C8: parse_table yields one row per <tr> in order and, within a row, one cell
\* per <td> or <th> in order, after removing the thead/tbody/tfoot wrappers; it
\* adds and removes no cells, so rows keep their different lengths (two rows of
\* one and two cells parse to rows of lengths 1 and 2).
C8_TableRows ==
    (doc.family = "table" /\ ParseReturned)
        => /\ result # "task_failed"
           /\ nodes = <<[kind |-> "Table",
                         rows |-> [i \in 1..Len(doc.counts) |->
                                      [j \in 1..doc.counts[i] |-> ExpectedCell(doc, i, j)]]]>>

\* The largest cell count of any row, 0 for no rows
LargestRow(rows) ==
    IF rows = <<>> THEN 0
    ELSE CHOOSE n \in 0..(MaxCells + 1) :
             /\ \E i \in 1..Len(rows) : Len(rows[i]) = n
             /\ \A i \in 1..Len(rows) : Len(rows[i]) <= n

\* The tables of the flow document
DocxTables(elements) ==
    SubseqAt(elements, {k \in 1..Len(elements) : elements[k].elem = "table"})

\* The flow-document table for the rows of the model: every row has exactly
\* LargestRow cells, the cells of the row followed by empty cells
PaddedTable(t, rows) ==
    /\ Len(t.rows) = Len(rows)
    /\ \A i \in 1..Len(rows) :
           /\ Len(t.rows[i]) = LargestRow(rows)
           /\ \A j \in 1..Len(t.rows[i]) :
                  IF j <= Len(rows[i])
                  THEN RunsText(t.rows[i][j].runs) = RunsText(rows[i][j])
                  ELSE t.rows[i][j].runs = <<>>

\* The cells of a row joined by "  |  "
PipeJoined(row) ==
    Flatten([j \in 1..Len(row) |->
                (IF j > 1 THEN <<" ", " ", "|", " ", " ">> ELSE <<>>) \o RunsText(row[j])])

\* The texts drawn at the size of table rows, in drawing order
TableTextOps(w) ==
    SubseqAt(w.ops, {k \in 1..Len(w.ops) : w.ops[k].op = "text" /\ w.ops[k].size = 10})

\* C9: both renderers accept a table whose rows have unequal cell counts: the
\* flow-document renderer emits for every row of the model a table row with
\* exactly C cells, C the largest cell count of any row, appending empty cells
\* to shorter rows, and no table for no rows or C = 0; the page renderer emits
\* exactly one pipe-joined text block per row of the model, in order (the words
\* of the drawn line are those of the joined text; wrapping re-spaces them).
C9_TableRendered ==
    (doc.family = "table" /\ pc = "done" /\ result = "ok")
        => /\ format = "docx"
                  => IF nodes[1].rows = <<>> \/ LargestRow(nodes[1].rows) = 0
                     THEN DocxTables(docx) = <<>>
                     ELSE /\ Len(DocxTables(docx)) = 1
                          /\ PaddedTable(DocxTables(docx)[1], nodes[1].rows)
           /\ format = "pdf"
                  => /\ Len(TableTextOps(writer)) = Len(nodes[1].rows)
                     /\ \A i \in 1..Len(nodes[1].rows) :
                            NoWhitespace(TableTextOps(writer)[i].text)
                                = NoWhitespace(PipeJoined(nodes[1].rows[i]))

\* A table with a row shorter than another has been rendered as a flow document
C9_Witness_Docx ==
    /\ doc.family = "table" /\ pc = "done" /\ result = "ok" /\ format = "docx"
    /\ \E i, j \in 1..Len(nodes[1].rows) : Len(nodes[1].rows[i]) < Len(nodes[1].rows[j])
    /\ \E k \in 1..Len(docx) :
           docx[k].elem = "table" /\ \E i \in 1..Len(docx[k].rows) :
               docx[k].rows[i][Len(docx[k].rows[i])].runs = <<>>

\* The text lines drawn so far by the page renderer
TextOps == {k \in 1..Len(writer.ops) : writer.ops[k].op = "text"}

\* The line height of a drawn line: 1.5 of the font size for the title (the
\* only text at 20 pt), 1.4 for every block
LineHeightOf(size) == line_height(size, IF size = 20 THEN 15 ELSE 14)

\* C10: no text line is written into the bottom margin: every line the page
\* renderer has drawn was drawn with the cursor at most at the top margin
\* (272 mm) and at least one line height above the bottom margin (25 mm), after
\* ensure_space was asked for exactly that line height, on a page that exists
C10_NoLineInBottomMargin ==
    \A k \in TextOps :
        /\ writer.ops[k].y - LineHeightOf(writer.ops[k].size) >= Mm(MARGIN_BOTTOM)
        /\ writer.ops[k].y <= Mm(A4_HEIGHT_MM - MARGIN_TOP)
        /\ writer.ops[k].needed = LineHeightOf(writer.ops[k].size)
        /\ writer.ops[k].page \in 1..writer.page_count

\* A line that had no room left on the first page was drawn at the top margin
\* of the second page, the line before it being the last of the first page
C10_Witness_NewPage ==
    /\ result = "ok"
    /\ format = "pdf"
    /\ \E k \in TextOps :
           /\ k > 1
           /\ k - 1 \in TextOps
           /\ writer.ops[k - 1].page = 1
           /\ writer.ops[k - 1].y - 2 * LineHeightOf(writer.ops[k].size) < Mm(MARGIN_BOTTOM)
           /\ writer.ops[k].page = 2
           /\ writer.ops[k].y = Mm(A4_HEIGHT_MM - MARGIN_TOP)

\* The cursor after new_page on a writer whose cursor was c: one page more, the
\* added page and its layer current, the cursor at the top margin
AfterNewPage(c) ==
    [current_page |-> c.page_count + 1, current_layer |-> c.page_count + 1,
     y_pos |-> Mm(A4_HEIGHT_MM - MARGIN_TOP), page_count |-> c.page_count + 1]

\* C11: for every line drawn, when the line height asked for did not fit above
\* the bottom margin, the line was drawn after exactly one page was added, on
\* the added page and layer with the cursor at the top margin; when it fitted,
\* the line was drawn with the page count, the page, the layer and the cursor
\* as ensure_space found them
C11_OverflowAddsOnePage ==
    \A k \in TextOps :
        IF writer.ops[k].before.y_pos - writer.ops[k].needed < Mm(MARGIN_BOTTOM)
        THEN writer.ops[k].at = AfterNewPage(writer.ops[k].before)
        ELSE writer.ops[k].at = writer.ops[k].before

\* A block of several lines overflowed in its middle: a line of a block was
\* drawn on the first page, the next line of the same size had no room and was
\* drawn on the second page, and the export finished with two pages
C11_Witness_MidBlock ==
    /\ result = "ok"
    /\ format = "pdf"
    /\ writer.page_count = 2
    /\ \E k \in TextOps :
           /\ k > 1
           /\ k - 1 \in TextOps
           /\ writer.ops[k].size # 20
           /\ writer.ops[k - 1].size = writer.ops[k].size
           /\ writer.ops[k - 1].at.page_count = 1
           /\ writer.ops[k].before.y_pos - writer.ops[k].needed < Mm(MARGIN_BOTTOM)
           /\ writer.ops[k].at.current_page = 2

RECURSIVE RenderedAlone(_, _, _)
\* The writer of build_pdf run alone on a model: the title, then node i on
RenderedAlone(w, model, i) ==
    IF i > Len(model) THEN w ELSE RenderedAlone(pdf_node(w, model[i]), model, i + 1)

\* What a call with the given arguments returns and renders when it runs alone
AloneOutcome(t, h, f) ==
    LET parsed == parse_html(h)
    IN  [result |-> IF parsed.ok THEN "ok" ELSE "task_failed",
         nodes |-> IF parsed.ok THEN parsed.nodes ELSE <<>>,
         docx |-> IF parsed.ok /\ f = "docx" THEN build_docx(t, parsed.nodes) ELSE <<>>,
         writer |-> IF parsed.ok /\ f = "pdf"
                    THEN RenderedAlone(pdf_title(NewWriter, t), parsed.nodes, 1)
                    ELSE NewWriter]

\* What call c has returned and rendered
CallOutcome(c) ==
    [result |-> result[c],
     nodes |-> IF result[c] = "ok" THEN nodes[c] ELSE <<>>,
     docx |-> docx[c],
     writer |-> writer[c]]

FontMessages == {FontErrors[i].message : i \in 1..Len(FontErrors)}

\* The build errors raised at the last step of a renderer
FinalStepErrors ==
    {"Failed to build DOCX", "Failed to save PDF", "Failed to finalize PDF buffer"}

\* What the call returns, from its arguments and from the library call that
\* fails: a panic of the parser first, then the error of the renderer
ExpectedResult ==
    IF ~parse_html(html).ok THEN "task_failed"
    ELSE IF format = "docx"
    THEN (IF library = "pack" THEN "Failed to build DOCX" ELSE "ok")
    ELSE IF library = "font_regular" THEN "Failed to add Helvetica font"
    ELSE IF library = "font_bold" THEN "Failed to add Helvetica-Bold font"
    ELSE IF library = "font_italic" THEN "Failed to add Helvetica-Oblique font"
    ELSE IF library = "font_bold_italic" THEN "Failed to add Helvetica-BoldOblique font"
    ELSE IF library = "font_mono" THEN "Failed to add Courier font"
    ELSE IF library = "save" THEN "Failed to save PDF"
    ELSE IF library = "into_inner" THEN "Failed to finalize PDF buffer"
    ELSE "ok"

\* Every block of the markup was parsed and rendered by the renderer called
FullyBuilt ==
    /\ nodes = parse_html(html).nodes
    /\ format = "docx" => docx = build_docx(title, nodes)
    /\ format = "pdf" =>
           /\ node_index = Len(nodes) + 1
           /\ writer = RenderedAlone(pdf_title(NewWriter, title), nodes, 1)

\* The outcomes of a call, as a predicate of the state
OutcomeOfCall ==
    /\ (pc = "done") = (result # "none")
    /\ pc = "done" =>
           /\ result = ExpectedResult
           /\ result \in {"ok", "task_failed"} \cup FinalStepErrors \cup FontMessages
           /\ result \in {"ok"} \cup FinalStepErrors => FullyBuilt
           /\ result \in FontMessages =>
                  nodes = parse_html(html).nodes /\ writer = NewWriter /\ format = "pdf"
           /\ result = "task_failed" => docx = <<>> /\ writer = NewWriter

Embeddable(img) == img.source \in {"png", "jpeg"} /\ img.payload \in {"whole", "padded"}

\* What the flow-document renderer emits for an image: the caption, an italic
\* centred paragraph of the alt text or of "[Image]", then the picture if the
\* image can be embedded
ExpectedImageElements(img) ==
    <<[elem |-> "paragraph", indent |-> 0, align |-> "center",
       runs |-> <<[text |-> IF img.alt = <<>> THEN <<"[", "I", "m", "a", "g", "e", "]">>
                            ELSE img.alt,
                   bold |-> FALSE, italic |-> TRUE, underline |-> FALSE, mono |-> FALSE,
                   size |-> 0]>>]>>
        \o (IF Embeddable(img)
            THEN <<[elem |-> "picture", data |-> PayloadText(img.payload),
                    align |-> "center"]>>
            ELSE <<>>)

\* The line the page renderer draws for an image
PlaceholderLine(img) ==
    IF img.alt = <<>> THEN <<"[", "I", "m", "a", "g", "e", "]">>
    ELSE <<"[", "I", "m", "a", "g", "e", ":", " ">> \o img.alt \o <<"]">>

TitleLinesOnOnePage ==
    CHOOSE n \in 0..MaxTitleLines :
        /\ Mm(A4_HEIGHT_MM - MARGIN_TOP) - n * line_height(20, 15) - Mm(12) >= Mm(MARGIN_BOTTOM)
        /\ \/ n = MaxTitleLines
           \/ Mm(A4_HEIGHT_MM - MARGIN_TOP) - (n + 1) * line_height(20, 15) - Mm(12)
                  < Mm(MARGIN_BOTTOM)

\* The texts of the lines drawn, in order, without whitespace
DrawnText ==
    NoWhitespace(Flatten([k \in 1..Len(writer.ops) |->
                             IF writer.ops[k].op = "text" THEN writer.ops[k].text ELSE <<>>]))

\* An export of markup without blocks has succeeded with the title as its only
\* text: the model is empty, the flow document is the bold centred title and
\* the empty spacer paragraph, the page renderer drew the title lines in the
\* bold font at 20 pt and no other text
OnlyTheTitle ==
    /\ result = "ok"
    /\ nodes = <<>>
    /\ format = "docx" =>
           /\ Len(docx) = 2
           /\ docx[1].elem = "paragraph" /\ Len(docx[1].runs) = 1
           /\ docx[1].runs[1].text = title /\ docx[1].runs[1].bold
           /\ docx[2].elem = "paragraph" /\ docx[2].runs = <<>>
    /\ format = "pdf" =>
           /\ Cardinality(TextOps) = doc.lines
           /\ \A k \in TextOps : writer.ops[k].size = 20 /\ writer.ops[k].font = "font_bold"
           /\ DrawnText = NoWhitespace(title)

\* C15 (amended): exporting empty or whitespace-only markup with a non-empty
\* title parses to an empty model and succeeds in both renderers with the title
\* as the only text; the page renderer produces a single page when the title
\* and the spacers under it fit on one page (at most 22 title lines), and a
\* second page otherwise
C15_BlankMarkup ==
    (pc = "done" /\ doc.blank) =>
        /\ OnlyTheTitle
        /\ format = "pdf" =>
               writer.page_count = IF doc.lines <= TitleLinesOnOnePage THEN 1 ELSE 2

\* C15 as stated: the page renderer produces a single page for every title
C15_SinglePageAsStated ==
    (pc = "done" /\ doc.blank) =>
        /\ OnlyTheTitle
        /\ format = "pdf" => writer.page_count = 1

\* Whitespace-only markup was exported by the page renderer under a title of
\* one line: one page with the title
C15_Witness_Whitespace ==
    /\ pc = "done"
    /\ doc.blank
    /\ html = <<"\n", " ", "\t">>
    /\ format = "pdf"
    /\ doc.lines = 1
    /\ writer.page_count = 1
    /\ Cardinality(TextOps) = 1

\* The title lines the page renderer has drawn, in order
TitleLines ==
    LET at == {k \in TextOps : writer.ops[k].size = 20}
    IN  [i \in 1..Cardinality(at) |->
            writer.ops[CHOOSE k \in at : Cardinality({j \in at : j < k}) = i - 1].text]

\* The estimated width of a title line of n characters, and the width of a line
EstimatedTitleWidth(n) == n * ((20 * 52 * 100 * Unit) \div PT_PER_MM_E4)

TitleMaxWidth == Mm(A4_WIDTH_MM - MARGIN_LEFT - MARGIN_RIGHT)

\* The words of a line
WordsOfLine(line) == split_whitespace(line)

\* The number of the word of a letter: the letter's place in the alphabet
WordNumber(letter) == CHOOSE i \in 1..26 : LowerAscii[i] = letter

\* The words joined by single spaces
JoinedBySpaces(words) ==
    Flatten([i \in 1..Len(words) |-> (IF i > 1 THEN <<" ">> ELSE <<>>) \o words[i]])

\* The title was wrapped and drawn
TitleDrawn == format = "pdf" /\ pc \in {"pdf_nodes", "done"}

\* C16: wrap_text is greedy.  Every line drawn is its words joined by single
\* spaces; a line of two or more words is estimated at no more than the width
\* of the line; and where a line ends between two words of one hard line, the
\* line with the next word appended would have been estimated wider than the
\* line (a break is placed before a word only when it would not have fitted)
C16_WrapGreedy ==
    TitleDrawn =>
        /\ \A k \in 1..Len(TitleLines) :
               /\ TitleLines[k] = JoinedBySpaces(WordsOfLine(TitleLines[k]))
               /\ Len(WordsOfLine(TitleLines[k])) >= 2
                      => EstimatedTitleWidth(Len(TitleLines[k])) <= TitleMaxWidth
        /\ \A k \in 1..(Len(TitleLines) - 1) :
               (/\ TitleLines[k] # <<>>
                /\ TitleLines[k + 1] # <<>>
                /\ doc.gaps[WordNumber(TitleLines[k + 1][1]) - 1] = "space")
                   => EstimatedTitleWidth(
                          Len(TitleLines[k]) + 1 + Len(WordsOfLine(TitleLines[k + 1])[1]))
                          > TitleMaxWidth

\* Three words separated by spaces were wrapped: the first two, of 21
\* characters each, fill the first line to 43 characters, and the third did
\* not fit and starts the second line
C16_Witness_Break ==
    /\ TitleDrawn
    /\ doc.lengths = <<21, 21, 1>>
    /\ doc.gaps = <<"space", "space">>
    /\ Len(TitleLines) = 2
    /\ Len(TitleLines[1]) = 43
    /\ TitleLines[2] = <<"c">>

\* The words of the title as they were put together, in order
TitleWords == [i \in 1..Len(doc.lengths) |-> WordOf(i, doc.lengths[i])]

\* The words of the drawn title lines, read in order
DrawnWords == Flatten([k \in 1..Len(TitleLines) |-> WordsOfLine(TitleLines[k])])

\* The line a word of the title was drawn on
LineOfWord(i) ==
    CHOOSE k \in 1..Len(TitleLines) :
        \E p \in 1..Len(TitleLines[k]) : TitleLines[k][p] = LowerAscii[i]

\* The newlines of the title, and its hard lines without a word: one for each
\* empty line between words, the one after the newline that ends a padded
\* title, and the only hard line of a title without words
TitleNewlines == Cardinality({p \in 1..Len(title) : title[p] = "\n"})

WordlessHardLines ==
    Cardinality({i \in 1..Len(doc.gaps) : doc.gaps[i] = "empty_line"})
        + (IF doc.padded THEN 1 ELSE 0)
        + (IF Len(doc.lengths) = 0 THEN 1 ELSE 0)

\* C17: wrap_text loses and splits nothing.  The words of the drawn lines are
\* the words of the title in order, a word wider than the line is a line of its
\* own, two words with a newline between them are on different lines and there
\* is a line more than there are newlines at least, the empty lines drawn are
\* as many as the hard lines without a word, and at least one line is drawn
C17_WrapKeepsWords ==
    TitleDrawn =>
        /\ DrawnWords = TitleWords
        /\ \A i \in 1..Len(doc.lengths) :
               EstimatedTitleWidth(doc.lengths[i]) > TitleMaxWidth
                   => TitleLines[LineOfWord(i)] = TitleWords[i]
        /\ \A i \in 1..Len(doc.gaps) :
               doc.gaps[i] # "space" => LineOfWord(i) < LineOfWord(i + 1)
        /\ Len(TitleLines) >= TitleNewlines + 1
        /\ Cardinality({k \in 1..Len(TitleLines) : TitleLines[k] = <<>>}) = WordlessHardLines
        /\ Len(TitleLines) >= 1

\* A title of a short word, a word wider than the line after a space, an empty
\* line and another short word was drawn as four lines: the wide word whole on
\* the second and nothing on the third
C17_Witness_WideWord ==
    /\ TitleDrawn
    /\ doc.lengths = <<1, 44, 1>>
    /\ doc.gaps = <<"space", "empty_line">>
    /\ ~doc.padded
    /\ Len(TitleLines) = 4
    /\ Len(TitleLines[2]) = 44
    /\ TitleLines[3] = <<>>

\* The lines the page renderer has drawn under the title, in order
BodyLines ==
    LET at == {k \in TextOps : writer.ops[k].size # 20}
    IN  [i \in 1..Cardinality(at) |->
            writer.ops[CHOOSE k \in at : Cardinality({j \in at : j < k}) = i - 1]]

\* The runs the page renderer is handed for a block of the model: those of a
\* heading all bold, those of a blockquote all italic, those of the first item
\* of a list
RunsOfBlock(node) ==
    IF node.kind = "Heading" THEN with_bold(node.children)
    ELSE IF node.kind = "Blockquote" THEN with_italic(node.children)
    ELSE IF node.kind = "UnorderedList" THEN node.items[1]
    ELSE node.children

\* The font for the flags of the first run with text, the regular font if no
\* run has text
FontOfFirstRun(runs) ==
    IF \A i \in 1..Len(runs) : runs[i].text = <<>> THEN "font_regular"
    ELSE LET first == CHOOSE i \in 1..Len(runs) :
                          /\ runs[i].text # <<>>
                          /\ \A j \in 1..(i - 1) : runs[j].text = <<>>
         IN  IF runs[first].code THEN "font_mono"
             ELSE IF runs[first].bold /\ runs[first].italic THEN "font_bold_italic"
             ELSE IF runs[first].bold THEN "font_bold"
             ELSE IF runs[first].italic THEN "font_italic"
             ELSE "font_regular"

\* The texts of the runs as one string
OneString(runs) == Flatten([i \in 1..Len(runs) |-> runs[i].text])

\* The lines of a string none of whose lines is too wide: its hard lines, the
\* words of each joined by single spaces
ShortLines(text) ==
    LET hard == split_on(text, "\n")
    IN  [i \in 1..Len(hard) |-> JoinedBySpaces(split_whitespace(hard[i]))]

\* The lines drawn are the lines of the runs as one string after the prefix,
\* every one in the font of the first run with text
DrawnInFontOfFirstRun(lines, runs, prefix) ==
    /\ [k \in 1..Len(lines) |-> lines[k].text] = ShortLines(prefix \o OneString(runs))
    /\ \A k \in 1..Len(lines) : lines[k].font = FontOfFirstRun(runs)

\* C18: in the page renderer every wrapped line of a block is drawn in the
\* font of the flags of the first run of the block whose text is not empty,
\* whatever the flags of the later runs are, and in the regular font when no
\* run has text; the lines are those of the texts of the runs concatenated
\* into one string.  (The runs of a heading are handed over all bold, those of
\* a blockquote all italic, and every source line of a code block is a block
\* of one code run.)
C18_FontOfFirstRun ==
    (format = "pdf" /\ pc = "done") =>
        /\ result = "ok"
        /\ nodes = <<>> => BodyLines = <<>>
        /\ nodes # <<>> =>
               /\ Len(nodes) = 1
               /\ nodes[1].kind = "CodeBlock" =>
                      /\ Len(BodyLines) = Len(lines_of(nodes[1].text))
                      /\ \A k \in 1..Len(BodyLines) :
                             DrawnInFontOfFirstRun(<<BodyLines[k]>>,
                                 <<[text |-> lines_of(nodes[1].text)[k], bold |-> FALSE,
                                    italic |-> FALSE, underline |-> FALSE, code |-> TRUE]>>,
                                 <<>>)
               /\ nodes[1].kind # "CodeBlock" =>
                      DrawnInFontOfFirstRun(BodyLines, RunsOfBlock(nodes[1]),
                          IF nodes[1].kind = "UnorderedList" THEN <<"U+2022", " ", " ">>
                          ELSE <<>>)

\* A paragraph of an italic run and a bold run was drawn as one line of both
\* letters in the italic font
C18_Witness_LaterRunIgnored ==
    /\ format = "pdf"
    /\ pc = "done"
    /\ doc.block = "paragraph"
    /\ doc.styles = <<"italic", "bold">>
    /\ Len(nodes[1].children) = 2
    /\ nodes[1].children[2].bold
    /\ Len(BodyLines) = 1
    /\ BodyLines[1].text = <<"a", "b">>
    /\ BodyLines[1].font = "font_italic"

\* The call has left parse_html, by its return or by a panic
ParseLeft == pc # "parse"

\* C19: wrapper tags are transparent.  Parsing blocks inside a wrapper (div,
\* section, article, main, header, footer; also a div in a div), with blocks
\* before and after the wrapper, gives what parsing the same blocks without
\* the wrapper gives: the same model, or a failure where that fails
C19_WrappersTransparent ==
    ParseLeft =>
        LET plain == parse_html(UnwrappedMarkup(doc))
        IN  IF plain.ok
            THEN result # "task_failed" /\ nodes = plain.nodes
            ELSE result = "task_failed"

\* A paragraph and a list in a div in a div, after a heading and before a
\* paragraph, were parsed into four blocks in the order of the markup
C19_Witness_Nested ==
    /\ ParseLeft
    /\ result # "task_failed"
    /\ doc.wrappers = <<T_div, T_div>>
    /\ Len(doc.before) = 1 /\ doc.before[1].tag = <<"h", "1">>
    /\ Len(doc.blocks) = 2 /\ doc.blocks[1].tag = T_p /\ doc.blocks[2].tag = T_ul
    /\ Len(doc.after) = 1
    /\ Len(nodes) = 4
    /\ nodes[1].kind = "Heading"
    /\ nodes[2].kind = "Paragraph"
    /\ nodes[3].kind = "UnorderedList"
    /\ nodes[4].kind = "Paragraph"

RECURSIVE SinglePass(_, _)
\* One pass over a text from position p: an entity of the table becomes its
\* glyph and the pass goes on behind it, any other character stays
SinglePass(text, p) ==
    IF p > Len(text) THEN <<>>
    ELSE IF EntitiesAt(text, p) = {} THEN <<text[p]>> \o SinglePass(text, p + 1)
    ELSE LET i == CHOOSE i \in EntitiesAt(text, p) : TRUE
         IN  EntityTable[i][2] \o SinglePass(text, p + Len(EntityTable[i][1]))

\* C20: decode_html_entities equals a single pass over the table: the text of
\* the parsed paragraph is its text in the markup with every entity of the
\* table replaced by its glyph and every other character unchanged, and what a
\* replacement has produced is not decoded again
C20_DecodeSinglePass ==
    (pc # "parse" /\ result # "task_failed") =>
        /\ Len(nodes) = 1
        /\ nodes[1].kind = "Paragraph"
        /\ Len(nodes[1].children) = 1
        /\ nodes[1].children[1].text = SinglePass(EntityDocText(doc), 1)

\* The texts of the runs of the paragraphs of the model, one after the other
ParagraphTexts == Flatten([i \in 1..Len(nodes) |-> OneString(nodes[i].children)])

\* C21: a closing tag without a matching opening tag is skipped and gives no
\* text, in the inline markup of a block and between the blocks: the model is
\* paragraphs only, no run holds a character of a tag (`<`, `/`, `>`), and the
\* text of the runs is the text of the document
C21_StrayClosingSkipped ==
    (pc # "parse" /\ result # "task_failed") =>
        /\ \A i \in 1..Len(nodes) : nodes[i].kind = "Paragraph"
        /\ \A p \in 1..Len(ParagraphTexts) : ParagraphTexts[p] \notin {"<", "/", ">"}
        /\ ParagraphTexts = Flatten([i \in 1..Len(doc.pieces) |-> doc.pieces[i].text])

\* C22: strip_tags_simple(html, "p") removes the tags named p and nothing
\* else: for every item of the parsed list, what it returns for the inner
\* markup of the item is that markup without its <p ...> and </p> tags, a
\* <pre> element in it left as it is
C22_StripsOnlyP ==
    (pc # "parse" /\ result # "task_failed") =>
        /\ Len(nodes) = 1
        /\ Len(nodes[1].items) = Len(doc.items)
        /\ \A i \in 1..Len(doc.items) :
               strip_tags_simple(doc.items[i].inner, T_p) = Ok(doc.items[i].without_p)

\* The run of the model in the block of the document
ModelRun ==
    IF nodes[1].kind \in {"UnorderedList", "OrderedList"} THEN nodes[1].items[1][1]
    ELSE IF nodes[1].kind = "Table" THEN nodes[1].rows[1][1][1]
    ELSE nodes[1].children[1]

\* The run the flow-document renderer has emitted for it: after the title and
\* the spacer, the run of the paragraph, the run after the ordinal of a list
\* item, or the run of the cell
EmittedRun ==
    IF docx[3].elem = "table" THEN docx[3].rows[1][1].runs[1]
    ELSE IF nodes[1].kind \in {"UnorderedList", "OrderedList"} THEN docx[3].runs[2]
    ELSE docx[3].runs[1]

\* C23: the flow-document renderer maps every style flag of a model run to the
\* run-level toggle, in every block that carries runs: the run is emitted bold,
\* italic, underlined and in the monospace font exactly as the flags of the
\* model run say, a heading's bold and a blockquote's italic whatever they say
C23_FlagsToToggles ==
    (format = "docx" /\ pc = "done") =>
        /\ result = "ok"
        /\ Len(nodes) = 1
        /\ Len(docx) = 3
        /\ EmittedRun.text = ModelRun.text
        /\ EmittedRun.bold = (ModelRun.bold \/ nodes[1].kind = "Heading")
        /\ EmittedRun.italic = (ModelRun.italic \/ nodes[1].kind = "Blockquote")
        /\ EmittedRun.underline = ModelRun.underline
        /\ EmittedRun.mono = ModelRun.code

\* A source line as it reads: its entity decoded, its whitespace as it is
SourceLineText(line) == IF line = <<"&", "l", "t", ";">> THEN <<"<">> ELSE line

\* C24: whitespace in a code block survives from markup to output.  The text
\* of the CodeBlock is the source lines, entities decoded, joined by newlines;
\* the flow document holds one indented monospace paragraph per source line
\* and the page renderer draws one monospace line per source line, in order,
\* each with the text of the source line, leading indentation included
C24_CodeWhitespaceKept ==
    pc = "done" =>
        /\ result = "ok"
        /\ Len(nodes) = 1
        /\ nodes[1].kind = "CodeBlock"
        /\ lines_of(nodes[1].text) = [i \in 1..Len(doc.lines) |-> SourceLineText(doc.lines[i])]
        /\ format = "docx" =>
               /\ Len(docx) = 2 + Len(doc.lines)
               /\ \A i \in 1..Len(doc.lines) :
                      /\ docx[2 + i].elem = "paragraph"
                      /\ docx[2 + i].indent = 360
                      /\ Len(docx[2 + i].runs) = 1
                      /\ docx[2 + i].runs[1].mono
                      /\ docx[2 + i].runs[1].text = SourceLineText(doc.lines[i])
        /\ format = "pdf" =>
               /\ Len(BodyLines) = Len(doc.lines)
               /\ \A i \in 1..Len(doc.lines) :
                      /\ BodyLines[i].font = "font_mono"
                      /\ BodyLines[i].text = SourceLineText(doc.lines[i])

\* The estimated width at 11 pt of the two words and the space between them,
\* at the ratio of the font
WidthInFont(font) ==
    (Len(FirstWord) + 1 + doc.len)
        * ((11 * (IF font = "font_mono" THEN 60 ELSE 52) * 100 * Unit) \div PT_PER_MM_E4)

\* C25: the width ratio used to wrap a block is that of the font the block is
\* drawn in: the two words of the paragraph are drawn on one line exactly when
\* they fit the line at the ratio of the font of the drawn lines, 0.60 for the
\* monospace font and 0.52 for every other
C25_RatioOfFont ==
    (format = "pdf" /\ pc = "done") =>
        /\ result = "ok"
        /\ Len(BodyLines) \in {1, 2}
        /\ \A k \in 1..Len(BodyLines) : BodyLines[k].font = BodyLines[1].font
        /\ Len(BodyLines) = 1 <=> WidthInFont(BodyLines[1].font) <= TitleMaxWidth

\* A cursor within the margins on the page allocated last
CursorInPage(c) ==
    /\ Mm(MARGIN_BOTTOM) <= c.y_pos
    /\ c.y_pos <= Mm(A4_HEIGHT_MM - MARGIN_TOP)
    /\ c.page_count >= 1
    /\ c.current_page = c.page_count
    /\ c.current_layer = c.page_count

\* The cursor is within the page after every operation so far: now, where
\* ensure_space found it and where it left it for every line drawn, and after
\* the cursor went down by the line; and everything drawn is on the page that
\* was the last when it was drawn, no earlier page after a later one
CursorInvariant ==
    /\ CursorInPage(Cursor(writer))
    /\ \A k \in TextOps :
           /\ CursorInPage(writer.ops[k].before)
           /\ CursorInPage(writer.ops[k].at)
           /\ writer.ops[k].at.y_pos - writer.ops[k].needed >= Mm(MARGIN_BOTTOM)
           /\ writer.ops[k].before.page_count <= writer.ops[k].at.page_count
           /\ writer.ops[k].page = writer.ops[k].at.page_count
    /\ \A k \in 1..Len(writer.ops) :
           /\ writer.ops[k].page <= writer.page_count
           /\ \A j \in 1..(k - 1) : writer.ops[j].page <= writer.ops[k].page

\* C26: the page-cursor invariant.  After every operation of the writer the
\* cursor is between the bottom margin (25 mm) and the top margin (272 mm),
\* the page count is at least 1 and is the page allocated last, which is the
\* current page, so nothing is drawn on an earlier page; and no step makes the
\* page count smaller
C26_PageCursor ==
    /\ []CursorInvariant
    /\ [][writer'.page_count >= writer.page_count]_vars

\* An export ended on its second page after text was drawn on both pages
C26_Witness_TwoPages ==
    /\ result = "ok"
    /\ format = "pdf"
    /\ writer.page_count = 2
    /\ writer.current_page = 2
    /\ \E j \in TextOps, k \in TextOps : writer.ops[j].page = 1 /\ writer.ops[k].page = 2

\* The bars drawn: the vertical lines among the operations
QuoteBars ==
    {k \in 1..Len(writer.ops) :
        writer.ops[k].op = "line" /\ writer.ops[k].x1 = writer.ops[k].x2}

\* C27: the vertical bar of a blockquote is on the page of the first text
\* line of the blockquote, the line drawn next after it, and its lower end is
\* not below the bottom margin (25 mm)
C27_BarWithQuote ==
    (format = "pdf" /\ pc = "done") =>
        /\ result = "ok"
        /\ Cardinality(QuoteBars) = 1
        /\ \A k \in QuoteBars :
               /\ k + 1 \in TextOps
               /\ writer.ops[k].page = writer.ops[k + 1].page
               /\ writer.ops[k].y2 >= Mm(MARGIN_BOTTOM)


\* cancel_scheduled_post(id) completed, as event c, before the scheduler took
\* up the post id
CancelledBeforeHandled(id, c) ==
    /\ events[c] = Event("cancel_scheduled_post", id)
    /\ \A h \in 1..c : events[h] # Event("handle", id)

\* C28: a post whose cancel_scheduled_post completed before the scheduler
\* took it up (before it would mark it 'publishing') is not published: no
\* publish call to the platform is made for it afterwards and its document is
\* not set to 'published' for it, under every interleaving of the commands
\* with a running check_and_publish
C28_CancelledNeverPublished ==
    \A k \in 1..Len(events) :
        events[k].op \in {"publish", "document_published"} =>
            ~ \E c \in 1..k : CancelledBeforeHandled(events[k].id, c)

\* The posts that are in status 'publishing'
PublishingPosts == {id \in DOMAIN scheduled_posts : scheduled_posts[id].status = "publishing"}

\* C29: when check_and_publish has returned no post is in status
\* 'publishing': every post it marked 'publishing' it has set to 'published'
\* or 'failed', on every path (empty document, no API key, an error of the
\* credential store, a failed platform call)
C29_NoPostStaysPublishing ==
    tick.pc = "returned" => PublishingPosts = {}

\* The snapshots stored by a step
StoredSnapshots == document_versions' \ document_versions

\* C30: a document has at most 50 rows in document_versions, after any
\* sequence of save_document, auto_save and restore_document_version; each
\* snapshot stored has a version number greater than all earlier ones of its
\* document; the version of a document changes only with a snapshot of that
\* version being stored, so auto_save leaves it unchanged
C30_VersionsBounded ==
    /\ [](\A d \in DocIds : Cardinality(VersionsOf(document_versions, d)) <= VERSION_LIMIT)
    /\ [][/\ \A r \in StoredSnapshots :
                 r.version > MaxVersionOf(document_versions, r.document_id)
          /\ \A d \in DOMAIN documents :
                 documents'[d].version # documents[d].version =>
                     \E r \in StoredSnapshots :
                         r.document_id = d /\ r.version = documents'[d].version]_vars
=============================================================================
